---- MODULE Spec2Model ----
(***************************************************************************)
(* A model of the shilld build script (buildWebsite / zipExtension / main) *)
(* and of the JavaScript data structures it relies on.                     *)
(*                                                                         *)
(* Strings are sequences of one-character strings, so that the conversions *)
(* the code applies (strip a leading "@", lower-casing, trimming, suffix   *)
(* tests, URL host extraction, path joins) are computed and not assumed.   *)
(***************************************************************************)
EXTENDS Integers, Sequences, FiniteSets, TLC

(* ------------------------------ bounds -------------------------------- *)

\* Number of per-user files an input directory holds at most.
MaxFiles == 2
\* Number of builds run one after the other.
MaxBuilds == 2
\* Number of per-user files in the directories of SpecFollowers.
MaxSamples == 4

\* stats.top_affiliations / stats.top_url_hosts keep slice(0, 20).
TopN == 20

(* ------------------------------ strings ------------------------------- *)

Upper == <<"A","B","C","D","E","F","G","H","I","J","K","L","M",
           "N","O","P","Q","R","S","T","U","V","W","X","Y","Z">>
Lower == <<"a","b","c","d","e","f","g","h","i","j","k","l","m",
           "n","o","p","q","r","s","t","u","v","w","x","y","z">>
Digits == <<"0","1","2","3","4","5","6","7","8","9">>

ToLowerChar(c) ==
  IF \E i \in 1..26 : Upper[i] = c
  THEN Lower[CHOOSE i \in 1..26 : Upper[i] = c]
  ELSE c

\* String.prototype.toLowerCase
toLowerCase(s) == [i \in 1..Len(s) |-> ToLowerChar(s[i])]

StartsWith(s, p) == Len(s) >= Len(p) /\ SubSeq(s, 1, Len(p)) = p
EndsWith(s, p) == Len(s) >= Len(p) /\ SubSeq(s, Len(s) - Len(p) + 1, Len(s)) = p
DropPrefix(s, n) == SubSeq(s, n + 1, Len(s))

\* s.replace(/^@/, '')
StripAt(s) == IF StartsWith(s, <<"@">>) THEN DropPrefix(s, 1) ELSE s

\* s.replace(/^www\./, '')
StripWww(s) == IF StartsWith(s, <<"w","w","w",".">>) THEN DropPrefix(s, 4) ELSE s

RECURSIVE TrimLeft(_)
TrimLeft(s) == IF Len(s) > 0 /\ s[1] = " " THEN TrimLeft(Tail(s)) ELSE s
RECURSIVE TrimRight(_)
TrimRight(s) ==
  IF Len(s) > 0 /\ s[Len(s)] = " " THEN TrimRight(SubSeq(s, 1, Len(s) - 1)) ELSE s
\* String.prototype.trim
Trim(s) == TrimRight(TrimLeft(s))

\* Position of the first character of s that is in set cs, or Len(s) + 1.
RECURSIVE FirstOf(_, _, _)
FirstOf(s, cs, i) ==
  IF i > Len(s) THEN Len(s) + 1
  ELSE IF s[i] \in cs THEN i ELSE FirstOf(s, cs, i + 1)

\* s.split(sep)
RECURSIVE Split(_, _)
Split(s, sep) ==
  LET i == FirstOf(s, {sep}, 1)
  IN IF i > Len(s) THEN <<s>>
     ELSE <<SubSeq(s, 1, i - 1)>> \o Split(DropPrefix(s, i), sep)

S_json == <<".","j","s","o","n">>
S_allJson == <<"_","a","l","l",".","j","s","o","n">>
S_indexHtml == <<"i","n","d","e","x",".","h","t","m","l">>
S_shills == <<"s","h","i","l","l","s">>
S_unknown == <<"u","n","k","n","o","w","n">>
S_none == <<"n","o","n","e">>
S_blue == <<"b","l","u","e">>
S_http == <<"h","t","t","p",":","/","/">>
S_https == <<"h","t","t","p","s",":","/","/">>
S_constructor == <<"c","o","n","s","t","r","u","c","t","o","r">>
S_toString == <<"t","o","S","t","r","i","n","g">>
S_valueOf == <<"v","a","l","u","e","O","f">>
S_hasOwnProperty == <<"h","a","s","O","w","n","P","r","o","p","e","r","t","y">>
S_proto == <<"_","_","p","r","o","t","o","_","_">>

\* path.basename(f, ext)
Basename(f, ext) ==
  IF EndsWith(f, ext) /\ Len(f) > Len(ext) THEN SubSeq(f, 1, Len(f) - Len(ext)) ELSE f

(* --------------------------- JavaScript values ------------------------ *)

Undef == [t |-> "undefined"]
Null == [t |-> "null"]
Str(s) == [t |-> "string", s |-> s]
Num(n) == [t |-> "number", n |-> n]
Bool(b) == [t |-> "boolean", b |-> b]
\* An affiliation object {description?, url?}
AffObj(d, u) == [t |-> "object", description |-> d, url |-> u]
\* A function inherited from Object.prototype; src is its source text.
NativeFn(src) == [t |-> "function", src |-> src]
\* Object.prototype itself, what obj["__proto__"] reads.
ObjectPrototype == [t |-> "object", description |-> Undef, url |-> Undef]

\* ToBoolean
Truthy(v) ==
  CASE v.t \in {"undefined", "null"} -> FALSE
    [] v.t = "string" -> Len(v.s) > 0
    [] v.t = "number" -> v.n # 0
    [] v.t = "boolean" -> v.b
    [] OTHER -> TRUE

Nullish(v) == v.t \in {"undefined", "null"}

RECURSIVE NatToStr(_)
NatToStr(n) == IF n < 10 THEN <<Digits[n + 1]>> ELSE NatToStr(n \div 10) \o <<Digits[(n % 10) + 1]>>

\* String(v). The text of an object or of a native function is kept as one chunk.
ToStr(v) ==
  CASE v.t = "string" -> v.s
    [] v.t = "undefined" -> <<"u","n","d","e","f","i","n","e","d">>
    [] v.t = "null" -> <<"n","u","l","l">>
    [] v.t = "boolean" -> IF v.b THEN <<"t","r","u","e">> ELSE <<"f","a","l","s","e">>
    [] v.t = "number" -> IF v.n < 0 THEN <<"-">> \o NatToStr(0 - v.n) ELSE NatToStr(v.n)
    [] v.t = "function" -> <<v.src>>
    [] OTHER -> <<"[object Object]">>

\* a || b
OrElse(a, b) == IF Truthy(a) THEN a ELSE b
\* a ?? b
Coalesce(a, b) == IF Nullish(a) THEN b ELSE a

(* ----------------- plain objects used as string-keyed maps ------------ *)

\* A Record<string, number> built from {} is the sequence of its own
\* properties [k, v] in insertion order; reads fall back to Object.prototype.
ProtoFns == {S_constructor, S_toString, S_valueOf, S_hasOwnProperty}

\* Function.prototype.toString of the inherited function, as one chunk.
ProtoFnSource(k) ==
  CASE k = S_constructor -> "function Object() { [native code] }"
    [] k = S_toString -> "function toString() { [native code] }"
    [] k = S_valueOf -> "function valueOf() { [native code] }"
    [] OTHER -> "function hasOwnProperty() { [native code] }"

HasOwn(obj, k) == \E i \in 1..Len(obj) : obj[i].k = k
OwnIndex(obj, k) == CHOOSE i \in 1..Len(obj) : obj[i].k = k

\* obj[k]
JsGet(obj, k) ==
  IF k = S_proto THEN ObjectPrototype
  ELSE IF HasOwn(obj, k) THEN obj[OwnIndex(obj, k)].v
  ELSE IF k \in ProtoFns THEN NativeFn(ProtoFnSource(k))
  ELSE Undef

\* obj[k] = v. Assigning a primitive to __proto__ is ignored by its setter.
JsSet(obj, k, v) ==
  IF k = S_proto THEN obj
  ELSE IF HasOwn(obj, k) THEN [obj EXCEPT ![OwnIndex(obj, k)].v = v]
  ELSE Append(obj, [k |-> k, v |-> v])

\* v + 1: numeric addition for a number, string concatenation otherwise.
JsPlusOne(v) == IF v.t = "number" THEN Num(v.n + 1) ELSE Str(ToStr(v) \o <<"1">>)

\* A canonical array index ("0", "7", "42"): such keys enumerate first, ascending.
IsIndexKey(k) ==
  /\ Len(k) >= 1
  /\ \A i \in 1..Len(k) : \E d \in 1..10 : Digits[d] = k[i]
  /\ (Len(k) = 1 \/ k[1] # "0")
  /\ Len(k) <= 9

RECURSIVE IndexValue(_)
IndexValue(k) ==
  IF Len(k) = 0 THEN 0
  ELSE 10 * IndexValue(SubSeq(k, 1, Len(k) - 1))
       + (CHOOSE d \in 0..9 : Digits[d + 1] = k[Len(k)])

RECURSIVE AscendingByIndex(_)
AscendingByIndex(es) ==
  IF es = {} THEN <<>>
  ELSE LET m == CHOOSE e \in es : \A f \in es : IndexValue(e.k) <= IndexValue(f.k)
       IN <<m>> \o AscendingByIndex(es \ {m})

\* Object.entries(obj): integer keys ascending, then string keys as inserted.
Entries(obj) ==
  AscendingByIndex({obj[i] : i \in {j \in 1..Len(obj) : IsIndexKey(obj[j].k)}})
  \o SelectSeq(obj, LAMBDA e : ~IsIndexKey(e.k))

\* (a, b) => b[1] - a[1]; a NaN result counts as 0.
CompareCounts(a, b) ==
  IF a.v.t = "number" /\ b.v.t = "number" THEN b.v.n - a.v.n ELSE 0

\* One step of a stable insertion sort: x goes after every element that
\* does not have to follow it.
RECURSIVE InsertByCount(_, _)
InsertByCount(s, x) ==
  IF Len(s) = 0 THEN <<x>>
  ELSE IF CompareCounts(s[Len(s)], x) > 0
       THEN Append(InsertByCount(SubSeq(s, 1, Len(s) - 1), x), s[Len(s)])
       ELSE Append(s, x)

\* Array.prototype.sort((a, b) => b[1] - a[1]) (stable)
RECURSIVE SortByCount(_)
SortByCount(s) ==
  IF Len(s) = 0 THEN <<>>
  ELSE InsertByCount(SortByCount(SubSeq(s, 1, Len(s) - 1)), s[Len(s)])

Min(a, b) == IF a < b THEN a ELSE b

\* sorted.slice(0, 20)
SliceTop(s) == SubSeq(s, 1, Min(Len(s), TopN))

\* Object.entries(counts).sort(...).map(...).slice(0, 20)
TopEntries(counts) ==
  LET sorted == SortByCount(Entries(counts))
      top == SliceTop(sorted)
  IN [i \in 1..Len(top) |-> [label |-> top[i].k, count |-> top[i].v]]

\* stats.x[k] = (stats.x[k] || 0) + 1
Bump(counts, k) == JsSet(counts, k, JsPlusOne(OrElse(JsGet(counts, k), Num(0))))

(* -------------------------------- URLs -------------------------------- *)

\* new URL(s).hostname for http(s) URLs; [ok |-> FALSE] when the constructor
\* throws. Other schemes are taken to throw.
ParseHost(s) ==
  LET rest == IF StartsWith(toLowerCase(s), S_https) THEN DropPrefix(s, 8)
              ELSE IF StartsWith(toLowerCase(s), S_http) THEN DropPrefix(s, 7)
              ELSE <<>>
      host == toLowerCase(SubSeq(rest, 1, FirstOf(rest, {"/", "?", "#", ":"}, 1) - 1))
  IN IF Len(host) = 0 \/ \E i \in 1..Len(host) : host[i] = " "
     THEN [ok |-> FALSE, host |-> <<>>]
     ELSE [ok |-> TRUE, host |-> host]

(* ---------------------------- input files ------------------------------ *)

\* The fields of a parsed per-user file that buildWebsite reads. proofs is
\* an array of proofs or undefined; followers is raw.public_metrics.followers_count;
\* expanded_url is raw.entities.url.urls[0].expanded_url.
RawOf(u, nm, aff, sub, url, xurl, ver, fol, prf) ==
  [username |-> u, name |-> nm, image |-> Undef, profile_image_url |-> Undef,
   bio |-> Undef, description |-> Undef, id |-> Undef, affiliation |-> aff,
   subscription_type |-> sub, url |-> url, expanded_url |-> xurl,
   verified |-> ver, followers |-> fol, proofs |-> prf]

Arr(items) == [t |-> "array", items |-> items]
Proof(nm) == [name |-> nm, date |-> <<"2025-01-01">>, description |-> <<"Context.">>,
              urls |-> <<<<"https://...">>>>]

R_Bob ==
  RawOf(Str(<<"@","B","o","b">>), Str(<<"B","o","b"," ","B">>), AffObj(Str(<<" ","A","c","m","e"," ">>), Undef),
        Str(S_blue), Str(<<"h","t","t","p","s",":","/","/","w","w","w",".","A","c","m","e",".","c","o","m","/","x">>), Undef, Bool(TRUE), Num(10),
        Arr(<<Proof(<<"p">>)>>))
R_bob ==
  RawOf(Str(<<"b","o","b">>), Undef, Null, Str(S_none), Undef, Str(<<"h","t","t","p",":","/","/","b","o","b",".","i","o">>),
        Bool(FALSE), Num(20), Arr(<<>>))
R_eve ==
  RawOf(Str(<<"e","v","e">>), Undef, AffObj(Str(S_constructor), Undef), Str(S_constructor),
        Str(<<"h","t","t","p",":","/","/","c","o","n","s","t","r","u","c","t","o","r">>), Undef, Undef, Num(30), Arr(<<Proof(<<"q">>)>>))
R_pat ==
  RawOf(Str(<<"p","a","t">>), Undef, AffObj(Undef, Str(<<"h","t","t","p","s",":","/","/","w","w","w",".","a","c","m","e",".","c","o","m">>)), Str(S_proto),
        Str(<<"n","o","t"," ","a"," ","u","r","l">>), Undef, Bool(TRUE), Str(<<"m","a","n","y">>), Undef)
R_dan ==
  RawOf(Str(<<"B","o","b">>), Undef, AffObj(Undef, Undef), Undef, Undef, Undef, Undef,
        Num(0 - 5), Undef)
R_slash ==
  RawOf(Str(<<"a","/","b">>), Undef, Null, Str(S_blue), Undef, Undef, Bool(TRUE), Num(10), Undef)
R_empty ==
  RawOf(Str(<<>>), Str(<<"N","o","b","o","d","y">>), AffObj(Str(<<"A","c","m","e">>), Undef), Str(S_blue),
        Str(<<"h","t","t","p","s",":","/","/","a","c","m","e",".","c","o","m">>), Undef, Bool(TRUE), Num(10), Arr(<<Proof(<<"r">>)>>))
R_missing ==
  RawOf(Undef, Undef, Null, Undef, Undef, Undef, Undef, Undef, Undef)

\* What a file holds: text that JSON.parse rejects, or a parsed object.
BadJson == [json |-> FALSE]
Json(raw) == [json |-> TRUE, raw |-> raw]

Contents == {BadJson} \cup {Json(r) : r \in {R_Bob, R_bob, R_eve, R_pat, R_dan,
                                            R_slash, R_empty, R_missing}}

File(name, content) == [name |-> name, content |-> content]

\* The i-th per-user file name: a.json, b.json, ...
FileName(i) == <<Lower[i]>> \o S_json

\* readdirSync lists _all.json first and notes.txt last when they exist.
Listing(cs, extras) ==
  LET own == [i \in 1..Len(cs) |-> File(FileName(i), cs[i])]
  IN IF extras
     THEN <<File(S_allJson, Json(R_bob))>> \o own \o <<File(<<"n","o","t","e","s",".","t","x","t">>, Json(R_bob))>>
     ELSE own

SeqsUpTo(S, n) == UNION {[1..k -> S] : k \in 0..n}

NoDir == [exists |-> FALSE, files |-> <<>>]
Dir(files) == [exists |-> TRUE, files |-> files]

\* The states of web/shills a build may find: absent, up to MaxFiles
\* per-user files, or one per-user file at most beside _all.json and notes.txt.
InputDirs ==
  {NoDir}
  \cup {Dir(Listing(cs, FALSE)) : cs \in SeqsUpTo(Contents, MaxFiles)}
  \cup {Dir(Listing(cs, TRUE)) : cs \in SeqsUpTo(Contents, 1)}

\* readdirSync(webShillsSrc).filter(f => f.endsWith('.json') && f !== '_all.json')
IsShillFile(f) == EndsWith(f.name, S_json) /\ f.name # S_allJson
ShillFiles(dir) == SelectSeq(dir.files, IsShillFile)

(* ------------------------ per-record processing ------------------------ *)

\* String(raw.username || '').replace(/^@/, '')
NormUsername(raw) == StripAt(ToStr(OrElse(raw.username, Str(<<>>))))

AvatarFor(username) == Str(<<"https://unavatar.io/twitter/">> \o username)
BioFor(username) == Str(<<"Bio for @">> \o username \o <<".">>)

\* The AccountBasic entry pushed for a parsed file.
AccountOf(raw, username) ==
  [username |-> username,
   name |-> OrElse(raw.name, Str(username)),
   image |-> OrElse(raw.image, OrElse(raw.profile_image_url, AvatarFor(username))),
   bio |-> OrElse(raw.bio, OrElse(raw.description, BioFor(username))),
   id |-> Coalesce(raw.id, Null),
   affiliation |-> Coalesce(raw.affiliation, Null),
   subscription_type |-> Coalesce(raw.subscription_type, Null),
   url |-> Coalesce(Coalesce(raw.url, raw.expanded_url), Null),
   verified |-> IF raw.verified.t = "boolean" THEN raw.verified ELSE Null]

\* InitStats with a record already counted.
InitStats_Carried ==
  [totals |-> [accounts |-> 1, affiliated |-> 0, independent |-> 1,
               verified_true |-> 0, verified_false |-> 0,
               free_accounts |-> 0, with_proofs |-> 0],
   subscription_distribution |-> <<>>,
   affiliation_counts |-> <<>>,
   url_host_counts |-> <<>>,
   followers |-> [count_available |-> 0, min |-> Null, max |-> Null,
                  average |-> Null, median |-> Null],
   top_affiliations |-> <<>>,
   top_url_hosts |-> <<>>]

InitStats ==
  [totals |-> [accounts |-> 0, affiliated |-> 0, independent |-> 0,
               verified_true |-> 0, verified_false |-> 0,
               free_accounts |-> 0, with_proofs |-> 0],
   subscription_distribution |-> <<>>,
   affiliation_counts |-> <<>>,
   url_host_counts |-> <<>>,
   followers |-> [count_available |-> 0, min |-> Null, max |-> Null,
                  average |-> Null, median |-> Null],
   top_affiliations |-> <<>>,
   top_url_hosts |-> <<>>]

\* The label of a truthy affiliation: trimmed description, else the host of
\* its url, else 'unknown'.
AffiliationLabel(aff) ==
  LET fromUrl == ParseHost(ToStr(aff.url))
      label ==
        IF aff.t # "object" THEN Null
        ELSE IF Truthy(aff.description) /\ Len(Trim(ToStr(aff.description))) > 0
             THEN Str(Trim(ToStr(aff.description)))
        ELSE IF Truthy(aff.url) /\ fromUrl.ok THEN Str(StripWww(fromUrl.host))
        ELSE Null
  IN OrElse(label, Str(S_unknown)).s

\* CountAffiliation without the else branch.
CountAffiliation_NoElse(st, aff) ==
  IF Truthy(aff)
  THEN [st EXCEPT !.totals.affiliated = @ + 1,
                  !.affiliation_counts = Bump(@, AffiliationLabel(aff))]
  ELSE st

CountAffiliation(st, aff) ==
  IF Truthy(aff)
  THEN [st EXCEPT !.totals.affiliated = @ + 1,
                  !.affiliation_counts = Bump(@, AffiliationLabel(aff))]
  ELSE [st EXCEPT !.totals.independent = @ + 1]

\* subscription_type ? String(subscription_type) : 'unknown'
SubscriptionKey(sub) == IF Truthy(sub) THEN ToStr(sub) ELSE S_unknown

CountSubscription(st, sub) ==
  [st EXCEPT !.subscription_distribution = Bump(@, SubscriptionKey(sub)),
             !.totals.free_accounts = IF SubscriptionKey(sub) = S_none THEN @ + 1 ELSE @]

CountVerified(st, v) ==
  IF v = Bool(TRUE) THEN [st EXCEPT !.totals.verified_true = @ + 1]
  ELSE IF v = Bool(FALSE) THEN [st EXCEPT !.totals.verified_false = @ + 1]
  ELSE st

CountUrlHost(st, url) ==
  LET parsed == ParseHost(ToStr(url))
  IN IF Truthy(url) /\ parsed.ok /\ Len(StripWww(parsed.host)) > 0
     THEN [st EXCEPT !.url_host_counts = Bump(@, StripWww(parsed.host))]
     ELSE st

\* Array.isArray(raw?.proofs) && raw.proofs.length > 0
CountProofs(st, raw) ==
  IF raw.proofs.t = "array" /\ Len(raw.proofs.items) > 0
  THEN [st EXCEPT !.totals.with_proofs = @ + 1]
  ELSE st

\* The statistics accumulated for one copied record.
AccumulateStats(st, acc, raw) ==
  CountProofs(
    CountUrlHost(
      CountVerified(
        CountSubscription(
          CountAffiliation([st EXCEPT !.totals.accounts = @ + 1], acc.affiliation),
          acc.subscription_type),
        acc.verified),
      acc.url),
    raw)

\* typeof followers === 'number' && Number.isFinite(followers)
IsFollowerSample(v) == v.t = "number"

(* ------------------------------ file system ---------------------------- *)

\* A path below web/dist is the sequence of its segments.
Segs(s) == SelectSeq(Split(s, "/"), LAMBDA x : Len(x) > 0)
Parent(p) == SubSeq(p, 1, Len(p) - 1)
\* fs.mkdirSync(dir, { recursive: true })
EnsureDir(dirs, p) == dirs \cup {SubSeq(p, 1, k) : k \in 0..Len(p)}
\* A file can be written when its directory exists and it is no directory.
CanWrite(dirs, p) == Len(p) > 0 /\ Parent(p) \in dirs /\ p \notin dirs
PutFile(files, p, d) == [q \in (DOMAIN files) \cup {p} |-> IF q = p THEN d ELSE files[q]]

S_shillsJson == <<"s","h","i","l","l","s",".","j","s","o","n">>
S_statsJson == <<"_","c","a","l","c","u","l","a","t","e","d","_","s","t","a","t","s",".","j","s","o","n">>
S_sitemapXml == <<"s","i","t","e","m","a","p",".","x","m","l">>
S_atitty == <<"a","t","i","t","t","y","_">>
S_eddyXBT == <<"e","d","d","y","X","B","T">>
S_MediaGiraffes == <<"M","e","d","i","a","G","i","r","a","f","f","e","s">>

\* web/dist/shills/<username>/<username>.json
DetailPath(username) == <<S_shills>> \o Segs(username) \o Segs(username \o S_json)
\* web/dist/shills/<username>.json
FlatPath(username) == <<S_shills>> \o Segs(username \o S_json)
\* web/dist/shills/<username>/index.html
PagePath(username) == <<S_shills>> \o Segs(username) \o <<S_indexHtml>>

\* The sitemap: one URL per listed per-user file, named after the file.
Sitemap(dir) ==
  LET fs == ShillFiles(dir)
  IN [kind |-> "sitemap",
      urls |-> [i \in 1..Len(fs) |->
                 <<"https://shilld.xyz/shills/">> \o Basename(fs[i].name, S_json)]]

\* ext/shills.json: unreadable, or { usernames }.
ExtMissing == [ok |-> FALSE, usernames |-> <<>>]
ExtFile(us) == [ok |-> TRUE, usernames |-> us]

NoZip == [built |-> FALSE, shills |-> ExtMissing]

Skip(name) == [msg |-> "Skipping invalid shill file", file |-> name]

(* --------------------------------- state ------------------------------- *)

VARIABLES
  pc,              \* where the build process is: idle, loop, stats, render, done, failed
  builds,          \* number of builds started so far
  mode,            \* flags of the running build: both, site (--site-only), ext (--ext-only)
  srcDir,          \* web/shills as the running build finds it
  idx,             \* position of the for-loop over the per-user files
  accounts,        \* let accounts: AccountBasic[]
  stats,           \* const stats: Stats
  followerSamples, \* const followerSamples: number[]
  dist,            \* the files below web/dist: path -> content
  distDirs,        \* the directories below web/dist
  extShills,       \* ext/shills.json
  zipShills,       \* the shills.json inside dist/ext/shilld.zip
  log,             \* what the running build logged
  exitCode         \* -1 while none, else the exit code of the last build

vars == <<pc, builds, mode, srcDir, idx, accounts, stats, followerSamples,
          dist, distDirs, extShills, zipShills, log, exitCode>>

\* The extension (ext/background.js): the background service worker and the
\* content script of one page.
VARIABLES
  now,       \* Date.now()
  cache,     \* chrome.storage.local: shilld_cache_usernames and shilld_cache_ts
  gs,        \* the getShills call in flight: its position and what it holds
  wu,        \* the fetchRemote of onInstalled: none, fetch, done
  calls,     \* number of GET_SHILLS requests so far
  page,      \* content script: none, waiting (request sent), listed (callback ran)
  shills,    \* content script: const shills = new Set()
  articles,  \* the tweet articles of the page, by position
  profile,   \* the profile header div[data-testid="UserName"] of the page
  fallbackAt \* when getShills last stored the bundled list as the cache; -1 if never

extVars == <<now, cache, gs, wu, calls, page, shills, articles, profile,
            fallbackAt>>

\* The fetch utility (fetch-x-users.ts): one run of main().
VARIABLES
  fpc,        \* where the run is: idle, await (a request is in flight), done, exited
  values,     \* extracted.values
  groups,     \* const groups = chunk(values, 100)
  batchIdx,   \* the loop variable i of main, counted from 1
  requests,   \* every request sent to the X API so far, in order
  answers,    \* how each of them was answered, in order
  report,     \* what the run printed when it ended
  fetchExit,  \* -1 while running, else the exit code of the process
  fmode       \* extracted.mode: usernames or ids

fetchVars == <<fpc, values, groups, batchIdx, requests, answers, report,
               fetchExit, fmode>>

\* extractValues of the fetch utility, applied to one CSV text.
VARIABLES
  csvText,    \* the text read from the CSV file
  extracted   \* what extractValues made of it, once it ran

csvVars == <<csvText, extracted>>

\* diff.ts: runs of main() over one fetched run directory and web/shills.
VARIABLES
  dpc,          \* where the run is: idle, loop (over the fetched files), done
  dmode,        \* inspect, update or ids
  druns,        \* number of runs started so far
  fetchedFiles, \* the JSON files of the run directory, parsed
  dIdx,         \* position of the loop over them
  shillFile,    \* web/shills/<username>.json as it is on disk
  shillBefore,  \* the same file as the running (or last) run found it
  dwrites       \* number of fs.writeFile calls of the running (or last) run

diffVars == <<dpc, dmode, druns, fetchedFiles, dIdx, shillFile, shillBefore, dwrites>>
toolVars == <<fetchVars, csvVars, diffVars>>
allVars == <<vars, extVars, toolVars>>

MaxArticles == 2

\* One day in milliseconds, the step of the clock.
Day == 86400000
\* const TTL_MS = 5 * 24 * 60 * 60 * 1000
TTL_MS == 5 * 24 * 60 * 60 * 1000

\* Nothing stored under the two cache keys.
NoCache == [has |-> FALSE, list |-> <<>>, ts |-> 0]
\* No getShills call in flight.
IdleCall == [pc |-> "idle", cached |-> <<>>, age |-> 0, fetch |-> "none",
             src |-> "none", result |-> <<>>]
\* An article that is not in the DOM.
Absent == [st |-> "absent", href |-> <<>>, header |-> FALSE,
           processed |-> FALSE, badges |-> 0, examined |-> 0]
\* No profile header in the DOM.
NoProfile == [st |-> "absent", href |-> <<>>, text |-> <<>>, path |-> <<>>,
              processed |-> FALSE, badges |-> 0, examined |-> 0]

ExtensionInit ==
  /\ now = Day
  /\ cache = NoCache
  /\ gs = IdleCall
  /\ wu = "none"
  /\ calls = 0
  /\ page = "none"
  /\ shills = {}
  /\ articles = [i \in 1..MaxArticles |-> Absent]
  /\ profile = NoProfile
  /\ fallbackAt = -1

\* Nothing printed yet.
NoReport == [kind |-> "none", retryAfter |-> FALSE, resetAt |-> FALSE]

\* The fetch utility before main() runs.
FetchInit ==
  /\ fpc = "idle"
  /\ values = <<>>
  /\ groups = <<>>
  /\ batchIdx = 0
  /\ requests = <<>>
  /\ answers = <<>>
  /\ report = NoReport
  /\ fetchExit = -1
  /\ fmode = "usernames"

\* extractValues has not run.
NotExtracted == [ran |-> FALSE, mode |-> "usernames", values |-> <<>>, exit |-> -1]

CsvInit ==
  /\ csvText = <<>>
  /\ extracted = NotExtracted

\* No file web/shills/<username>.json (or one that is not JSON).
NoShill == [exists |-> FALSE]

DiffInit ==
  /\ dpc = "idle"
  /\ dmode = "inspect"
  /\ druns = 0
  /\ fetchedFiles = <<>>
  /\ dIdx = 1
  /\ shillFile = NoShill
  /\ shillBefore = NoShill
  /\ dwrites = 0

ToolInit ==
  /\ FetchInit
  /\ CsvInit
  /\ DiffInit

\* ext/shills.json as the repository may ship it before the first build.
ExtInit == {ExtMissing, ExtFile(<<>>), ExtFile(<< <<"@","Z","e","d">> >>)}

\* The state of the build and of the extension before anything ran.
StartState ==
  /\ pc = "idle"
  /\ builds = 0
  /\ mode = "both"
  /\ srcDir = NoDir
  /\ idx = 1
  /\ accounts = <<>>
  /\ stats = InitStats
  /\ followerSamples = <<>>
  /\ dist = <<>>
  /\ distDirs = {}
  /\ extShills \in ExtInit
  /\ zipShills = NoZip
  /\ log = <<>>
  /\ exitCode = -1
  /\ ExtensionInit

Init ==
  /\ StartState
  /\ ToolInit

(* -------------------------------- actions ------------------------------ *)

\* main() up to the loop over the per-user files: zipExtension unless
\* --site-only, then (unless --ext-only) cleanDir(webDist), the sitemap and
\* the fresh accumulators. The bundling and the static copies are left out.
StartBuild(dir, m) ==
  /\ pc \in {"idle", "done", "failed"}
  /\ builds < MaxBuilds
  /\ builds' = builds + 1
  /\ mode' = m
  /\ log' = <<>>
  /\ zipShills' = IF m # "site" THEN [built |-> TRUE, shills |-> extShills] ELSE zipShills
  /\ IF m = "ext"
     THEN /\ pc' = "done"
          /\ exitCode' = 0
          /\ UNCHANGED <<srcDir, idx, accounts, stats, followerSamples, dist, distDirs>>
     ELSE /\ pc' = "loop"
          /\ exitCode' = -1
          /\ srcDir' = dir
          /\ idx' = 1
          /\ accounts' = <<>>
          /\ stats' = InitStats
          /\ followerSamples' = <<>>
          /\ distDirs' = {<<>>, <<S_shills>>}
          /\ dist' = IF dir.exists THEN PutFile(<<>>, <<S_sitemapXml>>, Sitemap(dir)) ELSE <<>>
  /\ UNCHANGED extShills
  /\ UNCHANGED <<extVars, toolVars>>

\* One iteration of the loop over the per-user files (the try block and its
\* catch). io says whether the file system lets the copy through.
ProcessFile(io) ==
  LET f == ShillFiles(srcDir)[idx]
      raw == f.content.raw
      username == NormUsername(raw)
      acc == AccountOf(raw, username)
      dirs1 == EnsureDir(distDirs, <<S_shills>> \o Segs(username))
      copied == io = "ok" /\ CanWrite(dirs1, DetailPath(username))
  IN /\ pc = "loop"
     /\ idx <= Len(ShillFiles(srcDir))
     /\ idx' = idx + 1
     /\ IF ~f.content.json
        THEN /\ log' = Append(log, Skip(f.name))
             /\ UNCHANGED <<accounts, stats, followerSamples, dist, distDirs>>
        ELSE IF username = <<>>
        THEN UNCHANGED <<log, accounts, stats, followerSamples, dist, distDirs>>
        ELSE /\ accounts' = Append(accounts, acc)
             /\ distDirs' = dirs1
             /\ IF copied
                THEN /\ dist' = PutFile(dist, DetailPath(username),
                                        [kind |-> "copy", content |-> f.content])
                     /\ stats' = AccumulateStats(stats, acc, raw)
                     /\ followerSamples' =
                          IF IsFollowerSample(raw.followers)
                          THEN Append(followerSamples, raw.followers.n)
                          ELSE followerSamples
                     /\ log' = log
                ELSE /\ log' = Append(log, Skip(f.name))
                     /\ UNCHANGED <<dist, stats, followerSamples>>
     /\ UNCHANGED <<pc, builds, mode, srcDir, extShills, zipShills, exitCode>>
     /\ UNCHANGED <<extVars, toolVars>>

\* The hardcoded list used when ext/shills.json cannot be read.
Seeds == <<S_atitty, S_eddyXBT, S_MediaGiraffes>>

\* FallbackUsernames that never reads ext/shills.json.
FallbackUsernames_SeedsOnly(ext) == Seeds

\* The usernames the fallback starts from: those of ext/shills.json when it
\* parses, else the seeds.
FallbackUsernames(ext) == IF ext.ok THEN ext.usernames ELSE Seeds

\* accounts.map(a => ({ username, name, image, bio })) of the fallback
Enrich(u) ==
  LET username == StripAt(u)
  IN [username |-> username, name |-> Str(username),
      image |-> AvatarFor(username), bio |-> BioFor(username)]

\* { ...acc, proofs: [ placeholder ] }
Placeholder(acc) ==
  [kind |-> "placeholder",
   username |-> acc.username, name |-> acc.name, image |-> acc.image, bio |-> acc.bio,
   proofs |-> << [name |-> <<"Placeholder proof">>,
                  date |-> <<"today">>,
                  description |-> <<"Replace with real references for @">>
                                  \o acc.username \o <<".">>,
                  urls |-> << <<"https://x.com/">> \o acc.username >>] >>]

\* The placeholder files of the fallback, written one after the other; the
\* first write that fails throws out of buildWebsite.
RECURSIVE WritePlaceholders(_, _, _, _)
WritePlaceholders(files, dirs, accts, i) ==
  IF i > Len(accts) THEN [ok |-> TRUE, files |-> files]
  ELSE IF CanWrite(dirs, FlatPath(accts[i].username))
       THEN WritePlaceholders(PutFile(files, FlatPath(accts[i].username),
                                      Placeholder(accts[i])), dirs, accts, i + 1)
       ELSE [ok |-> FALSE, files |-> files]

\* accounts.map(a => a.username.toLowerCase())
MinimalList(accts) == [i \in 1..Len(accts) |-> toLowerCase(accts[i].username)]

\* What is written to web/dist/shills.json.
SiteListContent(accts) == [kind |-> "usernames", usernames |-> MinimalList(accts)]
\* ExtListContent with the usernames as spelled in the listing.
ExtListContent_AsSpelled(accts) == ExtFile([i \in 1..Len(accts) |-> accts[i].username])

\* What is written to ext/shills.json.
ExtListContent(accts) == ExtFile(MinimalList(accts))

\* From the end of the loop to the minimal lists: the fallback when no
\* account was collected, then _all.json, web/dist/shills.json and
\* ext/shills.json. fail names a write the file system refuses.
Aggregate(fail) ==
  LET useFallback == Len(accounts) = 0
      names == FallbackUsernames(extShills)
      accts == IF useFallback
               THEN [i \in 1..Len(names) |-> Enrich(names[i])]
               ELSE accounts
      ph == IF useFallback
            THEN WritePlaceholders(dist, distDirs, accts, 1)
            ELSE [ok |-> TRUE, files |-> dist]
      withListing == PutFile(ph.files, <<S_shills, S_allJson>>,
                             [kind |-> "listing", accounts |-> accts])
      withSite == PutFile(withListing, <<S_shillsJson>>, SiteListContent(accts))
  IN /\ pc = "loop"
     /\ idx > Len(ShillFiles(srcDir))
     /\ accounts' = accts
     /\ IF ~ph.ok
        THEN /\ dist' = ph.files
             /\ pc' = "failed"
             /\ exitCode' = 1
             /\ UNCHANGED extShills
        ELSE IF fail = "ext"
        THEN /\ dist' = withSite
             /\ pc' = "failed"
             /\ exitCode' = 1
             /\ UNCHANGED extShills
        ELSE /\ dist' = withSite
             /\ extShills' = ExtListContent(accts)
             /\ pc' = "stats"
             /\ UNCHANGED exitCode
     /\ UNCHANGED <<builds, mode, srcDir, idx, stats, followerSamples, distDirs,
                    zipShills, log>>
     /\ UNCHANGED <<extVars, toolVars>>

\* A field of an account, undefined when the account has no such field.
Field(a, name) == IF name \in DOMAIN a THEN a[name] ELSE Undef

\* The statistics inferred from the accounts when no file was counted.
RECURSIVE InferStats(_, _, _)
InferStats(st, accts, i) ==
  IF i > Len(accts) THEN st
  ELSE LET a == accts[i]
           st1 == IF Truthy(Field(a, "affiliation"))
                  THEN [st EXCEPT !.totals.affiliated = @ + 1]
                  ELSE [st EXCEPT !.totals.independent = @ + 1]
           st2 == CountSubscription(st1, Field(a, "subscription_type"))
           st3 == CountVerified(st2, Field(a, "verified"))
       IN InferStats(st3, accts, i + 1)

RECURSIVE InsertAscending(_, _)
InsertAscending(s, x) ==
  IF Len(s) = 0 THEN <<x>>
  ELSE IF s[Len(s)] - x > 0
       THEN Append(InsertAscending(SubSeq(s, 1, Len(s) - 1), x), s[Len(s)])
       ELSE Append(s, x)

\* SortAscending that leaves the samples as collected.
SortAscending_Unsorted(s) == s

\* followerSamples.sort((a, b) => a - b)
RECURSIVE SortAscending(_)
SortAscending(s) ==
  IF Len(s) = 0 THEN <<>>
  ELSE InsertAscending(SortAscending(SubSeq(s, 1, Len(s) - 1)), s[Len(s)])

RECURSIVE SumOf(_)
SumOf(s) == IF Len(s) = 0 THEN 0 ELSE s[1] + SumOf(Tail(s))

\* A quotient num / den, kept exact.
Ratio(n, d) == [t |-> "number", num |-> n, den |-> d]

\* The index (from 1) of the central sample of an odd-length sorted array:
\* sorted[(length - 1) / 2] counted from 0.
MedianIndexOdd(n) == (n - 1) \div 2 + 1
\* The indexes of the two central samples of an even-length sorted array.
MedianIndexLow(n) == n \div 2
MedianIndexHigh(n) == n \div 2 + 1

MedianOf(sorted) ==
  IF Len(sorted) % 2 = 1
  THEN Ratio(sorted[MedianIndexOdd(Len(sorted))], 1)
  ELSE Ratio(sorted[MedianIndexLow(Len(sorted))] + sorted[MedianIndexHigh(Len(sorted))], 2)

AverageOf(sorted) == Ratio(SumOf(sorted), Len(sorted))

\* stats.followers of a non-empty sorted sample array
FollowerSummary(sorted) ==
  [count_available |-> Len(sorted),
   min |-> Num(sorted[1]),
   max |-> Num(sorted[Len(sorted)]),
   average |-> AverageOf(sorted),
   median |-> MedianOf(sorted)]

TopAffiliations(counts) == TopEntries(counts)
TopUrlHosts(counts) ==
  LET top == TopEntries(counts)
  IN [i \in 1..Len(top) |-> [host |-> top[i].label, count |-> top[i].count]]

\* The statistics document as finalized: inferred totals if nothing was
\* counted, the follower summary, the two top lists.
FinalStats(st, accts, sorted) ==
  LET inferred == IF st.totals.accounts = 0 /\ Len(accts) > 0
                  THEN InferStats([st EXCEPT !.totals.accounts = Len(accts)], accts, 1)
                  ELSE st
      summarized == IF Len(sorted) > 0
                    THEN [inferred EXCEPT !.followers = FollowerSummary(sorted)]
                    ELSE inferred
  IN [summarized EXCEPT !.top_affiliations = TopAffiliations(summarized.affiliation_counts),
                        !.top_url_hosts = TopUrlHosts(summarized.url_host_counts)]

\* Finalize the statistics and write _calculated_stats.json.
EmitStats ==
  /\ pc = "stats"
  /\ followerSamples' = SortAscending(followerSamples)
  /\ stats' = FinalStats(stats, accounts, SortAscending(followerSamples))
  /\ dist' = PutFile(dist, <<S_statsJson>>, [kind |-> "stats", stats |-> stats'])
  /\ pc' = "render"
  /\ UNCHANGED <<builds, mode, srcDir, idx, accounts, distDirs, extShills,
                 zipShills, log, exitCode>>
  /\ UNCHANGED <<extVars, toolVars>>

\* The pre-rendered page of each account, built from the account and from
\* the detail file read back from shills/<username>/<username>.json ({} when
\* that cannot be read).
RECURSIVE RenderPages(_, _, _, _)
RenderPages(files, dirs, accts, i) ==
  IF i > Len(accts) THEN [ok |-> TRUE, files |-> files, dirs |-> dirs]
  ELSE LET u == accts[i].username
           full == IF DetailPath(u) \in DOMAIN files /\ files[DetailPath(u)].kind = "copy"
                   THEN files[DetailPath(u)].content
                   ELSE [json |-> TRUE, raw |-> Undef]
           dirs1 == EnsureDir(dirs, <<S_shills>> \o Segs(u))
       IN IF CanWrite(dirs1, PagePath(u))
          THEN RenderPages(PutFile(files, PagePath(u),
                                   [kind |-> "page", account |-> accts[i], full |-> full]),
                           dirs1, accts, i + 1)
          ELSE [ok |-> FALSE, files |-> files, dirs |-> dirs1]

\* .nojekyll and the pre-rendering try block; a failure in it is logged and
\* the build still completes.
Prerender ==
  LET r == RenderPages(dist, distDirs, accounts, 1)
  IN /\ pc = "render"
     /\ dist' = r.files
     /\ distDirs' = r.dirs
     /\ log' = IF r.ok THEN log
               ELSE Append(log, [msg |-> "Failed to pre-render pages", file |-> <<>>])
     /\ pc' = "done"
     /\ exitCode' = 0
     /\ UNCHANGED <<builds, mode, srcDir, idx, accounts, stats, followerSamples,
                    extShills, zipShills>>
     /\ UNCHANGED <<extVars, toolVars>>

Modes == {"both", "site", "ext"}
IoOutcomes == {"ok", "fail"}
WriteFailures == {"none", "ext"}

\* A build wipes web/dist and starts from fresh accumulators, so of an
\* earlier build only ext/shills.json and the zip reach a later one: the
\* first build runs over any directory of the set, a rebuild over one with
\* at most one per-user file.
Rebuildable(d) == Len(ShillFiles(d)) <= 1
RebuildDirs == {d \in InputDirs : Rebuildable(d)}
DirsOfBuild(first, later, n) == IF n = 0 THEN first ELSE later

Next ==
  \/ \E dir \in DirsOfBuild(InputDirs, RebuildDirs, builds) : StartBuild(dir, "both")
  \/ \E io \in IoOutcomes : ProcessFile(io)
  \/ \E fail \in WriteFailures : Aggregate(fail)
  \/ EmitStats
  \/ Prerender

Spec == Init /\ [][Next]_allVars

(* ---------------- builds over directories of follower counts ----------- *)

SampleValues == {0 - 5, 10, 20, 30}

\* The i-th file of such a directory: user a, b, ... with a follower count.
SampleRaw(i, n) ==
  RawOf(Str(<<Lower[i]>>), Undef, Null, Undef, Undef, Undef, Undef, Num(n), Undef)

FollowerDirs ==
  {Dir([i \in 1..Len(ns) |-> File(FileName(i), Json(SampleRaw(i, ns[i])))]) :
     ns \in SeqsUpTo(SampleValues, MaxSamples)}

FollowerRebuildDirs == {d \in FollowerDirs : Rebuildable(d)}

NextFollowers ==
  \/ \E dir \in DirsOfBuild(FollowerDirs, FollowerRebuildDirs, builds) : StartBuild(dir, "both")
  \/ ProcessFile("ok")
  \/ Aggregate("none")
  \/ EmitStats
  \/ Prerender

SpecFollowers == Init /\ [][NextFollowers]_allVars

(* ------------------------------ properties ----------------------------- *)

Range(s) == {s[i] : i \in 1..Len(s)}

\* _calculated_stats.json has been written by the running or last build.
Emitted == <<S_statsJson>> \in DOMAIN dist
StatsDoc == dist[<<S_statsJson>>].stats

\* The build ran buildWebsite to its end.
Completed == pc = "done" /\ mode # "ext"

\* The per-user files of the input that the loader accepts.
Accepted(f) == f.content.json /\ NormUsername(f.content.raw) # <<>>
NoValidRecords(dir) ==
  ~dir.exists \/ \A i \in 1..Len(ShillFiles(dir)) : ~Accepted(ShillFiles(dir)[i])

UsernamesOf(accts) == [i \in 1..Len(accts) |-> accts[i].username]

\* C1: in the emitted statistics document, totals.affiliated +
\* totals.independent equals totals.accounts.
C1_AffiliatedPlusIndependent ==
  Emitted =>
    StatsDoc.totals.affiliated + StatsDoc.totals.independent = StatsDoc.totals.accounts

C1_Witness ==
  /\ Emitted
  /\ StatsDoc.totals.affiliated > 0
  /\ StatsDoc.totals.independent > 0

RECURSIVE SumCounts(_)
SumCounts(obj) ==
  IF Len(obj) = 0 THEN 0
  ELSE (IF obj[1].v.t = "number" THEN obj[1].v.n ELSE 0) + SumCounts(Tail(obj))

AllNumeric(obj) == \A i \in 1..Len(obj) : obj[i].v.t = "number"

\* C2: in the emitted statistics document every value of
\* subscription_distribution is a count and the counts add up to
\* totals.accounts.
C2_SubscriptionCountsSumToAccounts ==
  Emitted =>
    /\ AllNumeric(StatsDoc.subscription_distribution)
    /\ SumCounts(StatsDoc.subscription_distribution) = StatsDoc.totals.accounts

\* The follower counts of the per-user files of a FollowerDirs directory.
InputSamples ==
  LET fs == ShillFiles(srcDir)
  IN [i \in 1..Len(fs) |-> fs[i].content.raw.followers.n]

\* The k-th smallest value of s, by rank.
KthSmallest(s, k) ==
  CHOOSE v \in Range(s) :
    /\ Cardinality({i \in 1..Len(s) : s[i] < v}) < k
    /\ k <= Cardinality({i \in 1..Len(s) : s[i] <= v})

RECURSIVE TotalOf(_, _)
TotalOf(s, i) == IF i > Len(s) THEN 0 ELSE s[i] + TotalOf(s, i + 1)

RatEq(a, b) == a.num * b.den = b.num * a.den

\* C3: for a non-empty collection of follower samples the summary reports
\* their number, the smallest and the largest sample, the sum divided by the
\* count, and as median the central sample (odd count) or the average of the
\* two central samples (even count) of the ascending order; [10,20,30] has
\* median 20 and mean 20, [10,20] has median 15.
C3_FollowerSummary ==
  (Emitted /\ Len(InputSamples) > 0) =>
    LET s == InputSamples
        n == Len(s)
        f == StatsDoc.followers
    IN /\ f.count_available = n
       /\ f.min = Num(KthSmallest(s, 1))
       /\ f.max = Num(KthSmallest(s, n))
       /\ RatEq(f.average, Ratio(TotalOf(s, 1), n))
       /\ (n % 2 = 1 => RatEq(f.median, Ratio(KthSmallest(s, (n + 1) \div 2), 1)))
       /\ (n % 2 = 0 => RatEq(f.median, Ratio(KthSmallest(s, n \div 2)
                                              + KthSmallest(s, n \div 2 + 1), 2)))
       /\ (s = <<10, 20, 30>> => RatEq(f.median, Ratio(20, 1)) /\ RatEq(f.average, Ratio(20, 1)))
       /\ (s = <<10, 20>> => RatEq(f.median, Ratio(15, 1)))

C3_Witness ==
  /\ Emitted
  /\ InputSamples = <<30, 10, 20, 10>>
  /\ RatEq(StatsDoc.followers.median, Ratio(15, 1))
  /\ StatsDoc.followers.max = Num(30)

NonIncreasing(list) ==
  \A i \in 1..(Len(list) - 1) :
    /\ list[i].count.t = "number"
    /\ list[i + 1].count.t = "number"
    /\ list[i].count.n >= list[i + 1].count.n

\* C4: top_affiliations and top_url_hosts hold at most 20 entries each and
\* their counts do not increase from one entry to the next.
C4_TopListsBoundedAndSorted ==
  Emitted =>
    /\ Len(StatsDoc.top_affiliations) <= TopN
    /\ Len(StatsDoc.top_url_hosts) <= TopN
    /\ NonIncreasing(StatsDoc.top_affiliations)
    /\ NonIncreasing(StatsDoc.top_url_hosts)

\* A per-user file that parses and whose identifier is empty or missing.
EmptyIdFile(f) == f.content.json /\ NormUsername(f.content.raw) = <<>>

\* C5: after a completed build, an input file whose identifier is empty or
\* missing has a skip diagnostic in the log, has no URL in the sitemap and
\* no entry in the listing.
C5_EmptyIdentifierExcluded ==
  Completed =>
    \A i \in 1..Len(ShillFiles(srcDir)) :
      LET f == ShillFiles(srcDir)[i]
      IN EmptyIdFile(f) =>
           /\ Skip(f.name) \in Range(log)
           /\ ~\E k \in 1..Len(accounts) : accounts[k].username = <<>>
           /\ \A j \in 1..Len(dist[<<S_sitemapXml>>].urls) :
                dist[<<S_sitemapXml>>].urls[j]
                  # <<"https://shilld.xyz/shills/">> \o Basename(f.name, S_json)

\* C6: after a completed build, when two accepted input files carry
\* identifiers that differ only by letter case, the record set holds one
\* entry for that identifier, the one of the file processed last.
C6_CaseDuplicatesCollapse ==
  Completed =>
    \A i, j \in 1..Len(ShillFiles(srcDir)) :
      LET fi == ShillFiles(srcDir)[i]
          fj == ShillFiles(srcDir)[j]
          ui == NormUsername(fi.content.raw)
          uj == NormUsername(fj.content.raw)
      IN (i < j /\ j = Len(ShillFiles(srcDir)) /\ Accepted(fi) /\ Accepted(fj)
          /\ ui # uj /\ toLowerCase(ui) = toLowerCase(uj))
         => /\ Cardinality({k \in 1..Len(accounts) :
                              toLowerCase(accounts[k].username) = toLowerCase(uj)}) = 1
            /\ \E k \in 1..Len(accounts) : accounts[k] = AccountOf(fj.content.raw, uj)

HasPlaceholder(files, u) ==
  /\ FlatPath(u) \in DOMAIN files
  /\ files[FlatPath(u)].kind = "placeholder"
  /\ files[FlatPath(u)].username = u
  /\ Len(files[FlatPath(u)].proofs) = 1

\* C7 as claimed: after a completed build over an absent directory or one
\* without valid records, the record set is the three seed identifiers,
\* each with a placeholder artifact holding one proof.
C7_SeedsWheneverNoRecords ==
  (Completed /\ NoValidRecords(srcDir)) =>
    /\ UsernamesOf(accounts) = <<S_atitty, S_eddyXBT, S_MediaGiraffes>>
    /\ \A i \in 1..Len(accounts) : HasPlaceholder(dist, accounts[i].username)

\* C7 as amended: when the loop ends without a valid record and the fallback
\* succeeds, the record set is the usernames of ext/shills.json (leading "@"
\* stripped) if that file parses, and the three seed identifiers only if it
\* does not; each has a placeholder artifact holding one proof.
C7_FallbackRecordSet ==
  [][(pc = "loop" /\ pc' = "stats" /\ NoValidRecords(srcDir)) =>
       /\ UsernamesOf(accounts') =
            IF extShills.ok
            THEN [i \in 1..Len(extShills.usernames) |-> StripAt(extShills.usernames[i])]
            ELSE <<S_atitty, S_eddyXBT, S_MediaGiraffes>>
       /\ \A i \in 1..Len(accounts') : HasPlaceholder(dist', accounts'[i].username)]_vars

C7_Witness ==
  /\ Completed
  /\ builds = 2
  /\ NoValidRecords(srcDir)
  /\ Len(accounts) > 0
  /\ UsernamesOf(accounts) # <<S_atitty, S_eddyXBT, S_MediaGiraffes>>
  /\ \A i \in 1..Len(accounts) : HasPlaceholder(dist, accounts[i].username)

\* The copy of an accepted file of the running build failed: the catch
\* logged its name although it parsed and has an identifier.
CopyFailureLogged ==
  \E i \in 1..Len(ShillFiles(srcDir)) :
    /\ i < idx
    /\ Accepted(ShillFiles(srcDir)[i])
    /\ Skip(ShillFiles(srcDir)[i].name) \in Range(log)

\* C8: a build in which the copy of a record's artifact failed does not
\* run to completion with exit code 0.
C8_RecordFailureAbortsBuild ==
  (pc = "done" /\ exitCode = 0) => ~CopyFailureLogged

ListingAccounts == dist[<<S_shills, S_allJson>>].accounts

\* C9: after a completed build web/dist/shills.json and ext/shills.json
\* hold the same usernames in the same order, each the lower-cased username
\* of the corresponding entry of shills/_all.json.
C9_MinimalListsIdentical ==
  Completed =>
    /\ <<S_shillsJson>> \in DOMAIN dist
    /\ extShills.ok
    /\ dist[<<S_shillsJson>>].usernames = extShills.usernames
    /\ Len(extShills.usernames) = Len(ListingAccounts)
    /\ \A i \in 1..Len(ListingAccounts) :
         /\ extShills.usernames[i] = toLowerCase(ListingAccounts[i].username)
         /\ \A c \in Range(extShills.usernames[i]) : c \notin Range(Upper)

C9_Witness ==
  /\ Completed
  /\ ~NoValidRecords(srcDir)
  /\ \E i \in 1..Len(ListingAccounts) :
       ListingAccounts[i].username # extShills.usernames[i]

\* C10: after a completed build, for every accepted input file the detail
\* artifact shills/<username>/<username>.json exists and reads back as the
\* content of that file.
C10_DetailRoundTrip ==
  Completed =>
    \A i \in 1..Len(ShillFiles(srcDir)) :
      LET f == ShillFiles(srcDir)[i]
          p == DetailPath(NormUsername(f.content.raw))
      IN Accepted(f) =>
           /\ p \in DOMAIN dist
           /\ dist[p].kind = "copy"
           /\ dist[p].content = f.content

\* C11: after a completed build every account of shills/_all.json has a
\* detail artifact at shills/<username>/<username>.json, whether the record
\* set came from per-user files or from the fallback.
C11_DetailArtifactForEveryAccount ==
  Completed =>
    \A i \in 1..Len(ListingAccounts) :
      DetailPath(ListingAccounts[i].username) \in DOMAIN dist

\* The follower counts of the input that are not negative.
NonNegativeSamples == SelectSeq(InputSamples, LAMBDA v : v >= 0)

\* C12: the follower summary counts only the non-negative follower counts of
\* the input: count_available is their number and min, max and average are
\* taken over them alone.
C12_OnlyNonNegativeFollowers ==
  Emitted =>
    LET s == NonNegativeSamples
        f == StatsDoc.followers
    IN /\ f.count_available = Len(s)
       /\ Len(s) > 0 =>
            /\ f.min = Num(KthSmallest(s, 1))
            /\ f.max = Num(KthSmallest(s, Len(s)))
            /\ RatEq(f.average, Ratio(TotalOf(s, 1), Len(s)))

(* ------------- builds over directories of affiliation labels ----------- *)

MaxLabelFiles == 3

LabelValues == {<<"z","e","d">>, <<"a","b","e">>, <<"7">>}

\* The i-th file of such a directory: user a, b, ... affiliated under a label.
LabelRaw(i, label) ==
  RawOf(Str(<<Lower[i]>>), Undef, AffObj(Str(label), Undef), Undef, Undef, Undef,
        Undef, Undef, Undef)

LabelDirs ==
  {Dir([i \in 1..Len(ls) |-> File(FileName(i), Json(LabelRaw(i, ls[i])))]) :
     ls \in SeqsUpTo(LabelValues, MaxLabelFiles)}

LabelRebuildDirs == {d \in LabelDirs : Rebuildable(d)}

NextLabels ==
  \/ \E dir \in DirsOfBuild(LabelDirs, LabelRebuildDirs, builds) : StartBuild(dir, "both")
  \/ ProcessFile("ok")
  \/ Aggregate("none")
  \/ EmitStats
  \/ Prerender

SpecLabels == Init /\ [][NextLabels]_allVars

\* The affiliation labels of the per-user files of a LabelDirs directory.
InputLabels ==
  LET fs == ShillFiles(srcDir)
  IN [i \in 1..Len(fs) |-> AffiliationLabel(fs[i].content.raw.affiliation)]

\* The position of the first file that carries the label.
FirstSeen(label) ==
  CHOOSE i \in 1..Len(InputLabels) :
    /\ InputLabels[i] = label
    /\ \A j \in 1..(i - 1) : InputLabels[j] # label

\* C13: in top_affiliations two entries with equal counts stand in the
\* order in which their labels were first met while scanning the files.
C13_TiesInFirstEncounteredOrder ==
  Emitted =>
    LET top == StatsDoc.top_affiliations
    IN \A i, j \in 1..Len(top) :
         (i < j /\ top[i].count = top[j].count)
           => FirstSeen(top[i].label) < FirstSeen(top[j].label)

(* ---------------- the totals counted directly from the input ----------- *)

\* The accepted files of the running build whose copy went through, and the
\* accepted files; the totals are inferred from the latter when none was copied.
AcceptedFiles ==
  {i \in 1..Len(ShillFiles(srcDir)) : Accepted(ShillFiles(srcDir)[i])}
CopiedFiles ==
  {i \in AcceptedFiles : Skip(ShillFiles(srcDir)[i].name) \notin Range(log)}
CountedFiles == IF CopiedFiles # {} THEN CopiedFiles ELSE AcceptedFiles

RawAt(i) == ShillFiles(srcDir)[i].content.raw
AccountAt(i) == AccountOf(RawAt(i), NormUsername(RawAt(i)))

\* The totals of a build over srcDir, counted file by file.
TotalsOfInput ==
  [accounts |-> Cardinality(CountedFiles),
   affiliated |-> Cardinality({i \in CountedFiles : Truthy(AccountAt(i).affiliation)}),
   independent |-> Cardinality({i \in CountedFiles : ~Truthy(AccountAt(i).affiliation)}),
   verified_true |-> Cardinality({i \in CountedFiles : AccountAt(i).verified = Bool(TRUE)}),
   verified_false |-> Cardinality({i \in CountedFiles : AccountAt(i).verified = Bool(FALSE)}),
   free_accounts |->
     Cardinality({i \in CountedFiles :
                    Truthy(AccountAt(i).subscription_type)
                    /\ ToStr(AccountAt(i).subscription_type) = S_none}),
   with_proofs |->
     Cardinality({i \in CopiedFiles :
                    RawAt(i).proofs.t = "array" /\ Len(RawAt(i).proofs.items) > 0})]

\* The totals of n fallback records: each independent, nothing else known.
TotalsOfFallback(n) ==
  [accounts |-> n, affiliated |-> 0, independent |-> n, verified_true |-> 0,
   verified_false |-> 0, free_accounts |-> 0, with_proofs |-> 0]

\* C14 as claimed: the totals of a build are those of its input directory
\* alone: counted from its files, and for a directory without valid records
\* those of the three seed records, as in a build that finds no
\* ext/shills.json, whatever earlier builds wrote.
C14_TotalsFromInputAlone ==
  Emitted =>
    StatsDoc.totals =
      IF NoValidRecords(srcDir) THEN TotalsOfFallback(Len(Seeds)) ELSE TotalsOfInput

\* C14 as amended: the totals of a build over a directory with a valid
\* record are counted from its files, whatever earlier builds wrote; over a
\* directory without one they are those of the fallback record set, which
\* is the list the build leaves in ext/shills.json.
C14_TotalsFromInputOrFallbackList ==
  Emitted =>
    StatsDoc.totals =
      IF NoValidRecords(srcDir)
      THEN TotalsOfFallback(Len(extShills.usernames))
      ELSE TotalsOfInput

C14_Witness ==
  /\ Emitted
  /\ builds = MaxBuilds
  /\ ~NoValidRecords(srcDir)
  /\ extShills.usernames # <<>>
  /\ zipShills.shills.ok
  /\ zipShills.shills.usernames # extShills.usernames
  /\ StatsDoc.totals.with_proofs = 1
  /\ StatsDoc.totals.verified_false = 0

\* C19: after a completed default build the shills.json inside
\* dist/ext/shilld.zip is the list that build wrote to ext/shills.json.
C19_ZipHoldsListOfSameBuild ==
  (Completed /\ mode = "both") =>
    /\ zipShills.built
    /\ zipShills.shills = extShills

(* --------------- the extension: background service worker -------------- *)

MaxDays == 6
MaxCalls == 2

\* normalizeUsername(u): trimmed, one leading "@" dropped, lower-cased.
normalizeUsername_NoLower(u) ==
  IF ~Truthy(u) THEN <<>>
  ELSE LET t == Trim(ToStr(u))
       IN IF StartsWith(t, <<"@">>) THEN Tail(t) ELSE t

normalizeUsername(u) ==
  IF ~Truthy(u) THEN <<>>
  ELSE LET t == Trim(ToStr(u))
       IN toLowerCase(IF StartsWith(t, <<"@">>) THEN Tail(t) ELSE t)

\* arr.map(normalizeUsername).filter(Boolean)
NormalizeAll(items) ==
  SelectSeq([i \in 1..Len(items) |-> normalizeUsername(items[i])],
            LAMBDA u : Len(u) > 0)

\* normalizeList(data): { accounts: [{ username }] }, { usernames: [...] }
\* or [...]; anything else gives [].
normalizeList(data) ==
  IF Truthy(data) /\ Field(data, "accounts").t = "array"
  THEN LET as == Field(data, "accounts").items
       IN NormalizeAll([i \in 1..Len(as) |->
                          IF Truthy(as[i]) THEN Field(as[i], "username") ELSE as[i]])
  ELSE IF data.t = "array" THEN NormalizeAll(data.items)
  ELSE IF Truthy(data) /\ Field(data, "usernames").t = "array"
  THEN NormalizeAll(Field(data, "usernames").items)
  ELSE <<>>

\* A JSON object with the given fields.
Acct(u) == [t |-> "object", username |-> u]
AccountsDoc(as) == [t |-> "object", accounts |-> Arr(as)]
UsernamesDoc(us) == [t |-> "object", usernames |-> Arr(us)]

\* Bodies https://shilld.xyz/shills/_all.json may answer with.
RemoteData ==
  {AccountsDoc(<<Acct(Str(<<"B","o","b">>)), Null, Acct(Str(<<" ","@","E","v","e"," ">>))>>),
   UsernamesDoc(<<Str(<<"@","Z","e","d">>), Str(<<>>)>>),
   Arr(<<Str(<<"A","m","y">>)>>),
   AccountsDoc(<<>>),
   Null}

\* The outcome of a fetch of SHILLS_URL: an error (network, HTTP status,
\* body that is no JSON) or a parsed body.
FetchFailed == [ok |-> FALSE, json |-> Null]
FetchOk(d) == [ok |-> TRUE, json |-> d]
RemoteOutcomes == {FetchFailed} \cup {FetchOk(d) : d \in RemoteData}

\* fetchLocalFallback without normalizeList.
fetchLocalFallback_Raw == IF ~extShills.ok THEN <<>> ELSE extShills.usernames

\* fetchLocalFallback(): the bundled shills.json, normalized; [] when it
\* cannot be read. An unpacked extension bundles ext/shills.json itself.
fetchLocalFallback ==
  IF ~extShills.ok THEN <<>>
  ELSE normalizeList(UsernamesDoc([i \in 1..Len(extShills.usernames) |->
                                     Str(extShills.usernames[i])]))

\* A write of the list that leaves the timestamp out.
Stored_NoTime(list, t) == [has |-> TRUE, list |-> list, ts |-> 0]

\* storageSet({ [CACHE_KEY]: list, [CACHE_TS_KEY]: Date.now() })
Stored(list, t) == [has |-> TRUE, list |-> list, ts |-> t]

\* cached.length && age < TTL_MS, with the test always passing.
IsFresh_Always(cached, age) == TRUE
\* cached.length && age < TTL_MS, with <= for <.
IsFresh_Inclusive(cached, age) == Len(cached) > 0 /\ age <= TTL_MS

\* cached.length && age < TTL_MS
IsFresh(cached, age) == Len(cached) > 0 /\ age < TTL_MS

\* Time passes.
Tick ==
  /\ now < MaxDays * Day
  /\ now' = now + Day
  /\ UNCHANGED <<cache, gs, wu, calls, page, shills, articles>>
  /\ UNCHANGED <<vars, toolVars, fallbackAt, profile>>

\* A GET_SHILLS message arrives: getShills up to its first return or to the
\* request of fetchRemote (lines 61-71).
GetShillsRead ==
  LET cached == IF cache.has THEN cache.list ELSE <<>>
      ts == IF cache.has THEN cache.ts ELSE 0
      age == now - ts
  IN /\ gs.pc = "idle"
     /\ calls < MaxCalls
     /\ calls' = calls + 1
     /\ gs' = IF IsFresh(cached, age)
              THEN [pc |-> "returned", cached |-> cached, age |-> age,
                    fetch |-> "none", src |-> "cache", result |-> cached]
              ELSE [pc |-> "fetch", cached |-> cached, age |-> age,
                    fetch |-> "none", src |-> "none", result |-> <<>>]
     /\ UNCHANGED <<now, cache, wu, page, shills, articles>>
     /\ UNCHANGED <<vars, toolVars, fallbackAt, profile>>

\* The fetch of getShills's fetchRemote settles (lines 39-46 and 72-79).
GetShillsFetched(out) ==
  LET list == normalizeList(out.json)
  IN /\ gs.pc = "fetch"
     /\ IF out.ok
        THEN /\ cache' = Stored(list, now)
             /\ gs' = [gs EXCEPT !.pc = "returned", !.fetch = "ok",
                                 !.src = "remote", !.result = list]
        ELSE IF Len(gs.cached) > 0
        THEN /\ cache' = cache
             /\ gs' = [gs EXCEPT !.pc = "returned", !.fetch = "failed",
                                 !.src = "cache", !.result = gs.cached]
        ELSE /\ cache' = cache
             /\ gs' = [gs EXCEPT !.pc = "fallback", !.fetch = "failed"]
     /\ UNCHANGED <<now, wu, calls, page, shills, articles>>
     /\ UNCHANGED <<vars, toolVars, fallbackAt, profile>>

\* fetchLocalFallback settles (lines 75-79).
GetShillsFallback ==
  LET fallback == fetchLocalFallback
  IN /\ gs.pc = "fallback"
     /\ cache' = IF Len(fallback) > 0 THEN Stored(fallback, now) ELSE cache
     /\ fallbackAt' = IF Len(fallback) > 0 THEN now ELSE fallbackAt
     /\ gs' = [gs EXCEPT !.pc = "returned", !.src = "bundled", !.result = fallback]
     /\ UNCHANGED <<now, wu, calls, page, shills, articles>>
     /\ UNCHANGED <<vars, toolVars, profile>>

\* sendResponse({ usernames: list }): the call is over.
GetShillsRespond ==
  /\ gs.pc = "returned"
  /\ gs' = IdleCall
  /\ UNCHANGED <<now, cache, wu, calls, page, shills, articles>>
  /\ UNCHANGED <<vars, toolVars, fallbackAt, profile>>

\* chrome.runtime.onInstalled: fetchRemote().catch(() => {})
OnInstalled ==
  /\ wu = "none"
  /\ wu' = "fetch"
  /\ UNCHANGED <<now, cache, gs, calls, page, shills, articles>>
  /\ UNCHANGED <<vars, toolVars, fallbackAt, profile>>

\* The fetch of the warm-up settles.
WarmupFetched(out) ==
  /\ wu = "fetch"
  /\ wu' = "done"
  /\ cache' = IF out.ok THEN Stored(normalizeList(out.json), now) ELSE cache
  /\ UNCHANGED <<now, gs, calls, page, shills, articles>>
  /\ UNCHANGED <<vars, toolVars, fallbackAt, profile>>

NextExt ==
  \/ Tick
  \/ GetShillsRead
  \/ \E out \in RemoteOutcomes : GetShillsFetched(out)
  \/ GetShillsFallback
  \/ GetShillsRespond
  \/ OnInstalled
  \/ \E out \in RemoteOutcomes : WarmupFetched(out)

SpecExt == Init /\ [][NextExt]_allVars

(* ----------------------- properties of getShills ----------------------- *)

Returned == gs.pc = "returned"

\* C15 as claimed: a call that returns has attempted the remote fetch; it
\* returns the cached list only after that fetch failed, and the bundled
\* list only after it failed with no cached list.
C15_RemoteThenCacheThenBundled ==
  Returned =>
    /\ gs.fetch # "none"
    /\ gs.src = "cache" => gs.fetch = "failed"
    /\ gs.src = "bundled" => gs.fetch = "failed" /\ gs.cached = <<>>

\* C15 as amended: a call returns without a fetch exactly when the cached
\* list it read is non-empty and younger than TTL_MS, and then returns that
\* list; otherwise it attempts the remote fetch and returns the fetched
\* list if the fetch succeeded, the cached list if it failed and that list
\* is non-empty, and the bundled list if it failed and that list is empty.
C15_FreshCacheThenRemoteThenStale ==
  Returned =>
    /\ gs.fetch = "none" <=> (Len(gs.cached) > 0 /\ gs.age < TTL_MS)
    /\ gs.fetch = "none" => gs.src = "cache" /\ gs.result = gs.cached
    /\ gs.fetch = "ok" <=> gs.src = "remote"
    /\ gs.fetch = "failed" =>
         IF Len(gs.cached) > 0
         THEN gs.src = "cache" /\ gs.result = gs.cached
         ELSE gs.src = "bundled"

C15_Witness ==
  /\ Returned
  /\ gs.fetch = "none"
  /\ gs.src = "cache"
  /\ gs.age > 0
  /\ Len(gs.result) > 0

\* The bundled list as the extension reads it: each username of
\* ext/shills.json trimmed, without a leading "@" and lower-cased, the
\* empty ones dropped; empty when the file cannot be read.
BundledUsernames ==
  IF ~extShills.ok THEN <<>>
  ELSE SelectSeq([i \in 1..Len(extShills.usernames) |->
                    toLowerCase(StripAt(Trim(extShills.usernames[i])))],
                 LAMBDA u : Len(u) > 0)

C17_FreshCacheSkipsRemote ==
  [][(gs.pc = "idle" /\ gs'.pc # "idle") =>
       IF cache.has /\ Len(cache.list) > 0
          /\ now - cache.ts < 5 * 24 * 60 * 60 * 1000
       THEN /\ gs'.pc = "returned"
            /\ gs'.fetch = "none"
            /\ gs'.result = cache.list
            /\ cache' = cache
       ELSE gs'.pc = "fetch"]_allVars

C17_Witness ==
  /\ gs.pc = "fetch"
  /\ Len(gs.cached) > 0
  /\ gs.age = TTL_MS

\* A list as normalizeList leaves it: no empty entry, no upper-case letter,
\* no blank at either end.
IsNormalized(list) ==
  \A i \in 1..Len(list) :
    /\ Len(list[i]) > 0
    /\ \A c \in Range(list[i]) : c \notin Range(Upper)
    /\ list[i][1] # " " /\ list[i][Len(list[i])] # " "

\* The usernames of the bodies of RemoteData.
RemoteLists ==
  {<< <<"b","o","b">>, <<"e","v","e">> >>, << <<"z","e","d">> >>,
   << <<"a","m","y">> >>, <<>>}

\* C18: when the remote fetch of getShills succeeds, that step stores the
\* normalized fetched list together with the current time and returns the
\* same list; a successful warm-up fetch stores its list in the same way.
C18_FetchSuccessOverwritesCache ==
  [][/\ (gs.pc = "fetch" /\ gs'.fetch = "ok") =>
          /\ gs'.pc = "returned"
          /\ gs'.result \in RemoteLists
          /\ IsNormalized(gs'.result)
          /\ cache' = [has |-> TRUE, list |-> gs'.result, ts |-> now]
     /\ (wu = "fetch" /\ wu' = "done" /\ cache' # cache) =>
          /\ cache'.has
          /\ cache'.ts = now
          /\ cache'.list \in RemoteLists
          /\ IsNormalized(cache'.list)]_allVars

C18_Witness ==
  /\ Returned
  /\ gs.src = "remote"
  /\ now > Day
  /\ cache = [has |-> TRUE, list |-> << <<"b","o","b">>, <<"e","v","e">> >>, ts |-> now]
  /\ gs.result = cache.list
  /\ Len(gs.cached) > 0

(* ------------------- the extension: content script --------------------- *)

\* Paths that are no user names (lines 144-156).
Reserved ==
  {<<"h","o","m","e">>, <<"e","x","p","l","o","r","e">>,
   <<"n","o","t","i","f","i","c","a","t","i","o","n","s">>,
   <<"m","e","s","s","a","g","e","s">>, <<"i">>,
   <<"s","e","t","t","i","n","g","s">>, <<"c","o","m","p","o","s","e">>,
   <<"s","e","a","r","c","h">>, <<"l","o","g","o","u","t">>, <<"t","o","s">>,
   <<"p","r","i","v","a","c","y">>}

\* extractUsernameFromUserLink(a): the first path segment of the href,
\* normalized; <<>> stands for null.
extractUsernameFromUserLink(href) ==
  LET path == Segs(href)
  IN IF Len(path) = 0 \/ path[1] \in Reserved THEN <<>>
     ELSE normalizeUsername(Str(path[1]))

\* article.dataset.shilldProcessed === "true", with the test never passing.
isProcessed_Never(el) == FALSE

\* el.dataset.shilldProcessed === "true"
isProcessed(el) == el.processed

\* addBadgeToUserNameContainer(container, username), on the number of badges
\* in the container: nothing without a username or when the container holds
\* a .shilld-badge already, else one badge more.
addBadgeToUserNameContainer(badges, username) ==
  IF Len(username) = 0 \/ badges > 0 THEN badges ELSE badges + 1

\* processTweetArticle(article) with the set of listed names; examined
\* counts how often the header of the article was looked into.
processTweetArticle(a, listed) ==
  IF a.st # "present" \/ isProcessed(a) \/ ~a.header THEN a
  ELSE LET username == extractUsernameFromUserLink(a.href)
       IN [a EXCEPT !.badges = IF Len(username) > 0 /\ username \in listed
                                THEN addBadgeToUserNameContainer(@, username)
                                ELSE @,
                    !.examined = @ + 1,
                    !.processed = TRUE]

\* processProfileHeader() with the set of listed names: the username comes
\* from the link of the header, else from the first @handle of its text, else
\* from a location path of one segment.
processProfileHeader(p, listed) ==
  IF p.st # "present" \/ isProcessed(p) THEN p
  ELSE LET fromLink == IF Len(p.href) > 0 THEN extractUsernameFromUserLink(p.href)
                       ELSE <<>>
           fromText == IF Len(p.text) > 0 THEN normalizeUsername(Str(p.text)) ELSE <<>>
           fromPath == IF Len(Segs(p.path)) = 1
                       THEN normalizeUsername(Str(Segs(p.path)[1])) ELSE <<>>
           username == IF Len(fromLink) > 0 THEN fromLink
                       ELSE IF Len(fromText) > 0 THEN fromText ELSE fromPath
       IN [p EXCEPT !.badges = IF Len(username) > 0 /\ username \in listed
                                THEN addBadgeToUserNameContainer(@, username)
                                ELSE @,
                    !.examined = @ + 1,
                    !.processed = TRUE]

\* The hrefs of the user links of the tweets.
Hrefs == {<<"/","B","o","b">>, <<"/","a","m","y">>, <<"/","h","o","m","e">>}

\* A tweet article in the DOM that no one processed yet.
Fresh(href, hdr) == [st |-> "present", href |-> href, header |-> hdr,
                     processed |-> FALSE, badges |-> 0, examined |-> 0]
FreshArticles == {Fresh(h, b) : h \in Hrefs, b \in BOOLEAN}

\* A profile header in the DOM that no one processed yet, on the page /Bob:
\* with or without a user link, with or without an @handle in its text.
FreshProfile(href, text) ==
  [st |-> "present", href |-> href, text |-> text, path |-> <<"/","B","o","b">>,
   processed |-> FALSE, badges |-> 0, examined |-> 0]
FreshProfiles ==
  {FreshProfile(h, t) : h \in {<<>>, <<"/","B","o","b">>}, t \in {<<>>, <<"a","m","y">>}}

\* The usernames arrays getShills may answer with.
ResponseLists == {<<>>, << <<"b","o","b">> >>, << <<"b","o","b">>, <<"a","m","y">> >>}

\* The content script starts in a page that holds arts and the profile header
\* prof: it sends GET_SHILLS and starts observing the document (lines 102-105
\* and 225-246).
PageLoad(arts, prof) ==
  /\ page = "none"
  /\ page' = "waiting"
  /\ shills' = {}
  /\ articles' = arts
  /\ profile' = prof
  /\ UNCHANGED <<now, cache, gs, wu, calls>>
  /\ UNCHANGED <<vars, toolVars, fallbackAt>>

\* The page inserts a tweet article; the observer processes it (line 232).
ArticleAdded(i, a) ==
  /\ page # "none"
  /\ articles[i].st = "absent"
  /\ articles' = [articles EXCEPT ![i] = processTweetArticle(a, shills)]
  /\ UNCHANGED <<now, cache, gs, wu, calls, page, shills>>
  /\ UNCHANGED <<vars, toolVars, fallbackAt, profile>>

\* The page inserts a node that holds the profile header; the observer calls
\* processProfileHeader (lines 235-236).
ProfileAdded(p) ==
  /\ page # "none"
  /\ profile.st = "absent"
  /\ profile' = processProfileHeader(p, shills)
  /\ UNCHANGED <<now, cache, gs, wu, calls, page, shills, articles>>
  /\ UNCHANGED <<vars, toolVars, fallbackAt>>

\* The page moves an article that is in the DOM, or a node around it: the
\* observer finds the article among the added nodes and calls
\* processTweetArticle on it once more (lines 231-234).
ArticleReinserted(i) ==
  /\ page # "none"
  /\ articles[i].st = "present"
  /\ articles' = [articles EXCEPT ![i] = processTweetArticle(articles[i], shills)]
  /\ UNCHANGED <<now, cache, gs, wu, calls, page, shills>>
  /\ UNCHANGED <<vars, toolVars, fallbackAt, profile>>

\* The same for a node that holds the profile header (lines 235-236).
ProfileReinserted ==
  /\ page # "none"
  /\ profile.st = "present"
  /\ profile' = processProfileHeader(profile, shills)
  /\ UNCHANGED <<now, cache, gs, wu, calls, page, shills, articles>>
  /\ UNCHANGED <<vars, toolVars, fallbackAt>>

\* The page renders the User-Name header inside an article that had none.
\* The added node is no article and holds none, so the observer processes
\* nothing (lines 231-237).
HeaderAdded(i) ==
  /\ page # "none"
  /\ articles[i].st = "present"
  /\ ~articles[i].header
  /\ articles' = [articles EXCEPT ![i].header = TRUE]
  /\ UNCHANGED <<now, cache, gs, wu, calls, page, shills>>
  /\ UNCHANGED <<vars, toolVars, fallbackAt, profile>>

\* The sendMessage callback runs with { usernames: list }: the names are
\* added to the set and scanAll processes every article and the profile
\* header (lines 113-116).
ListResponse(list) ==
  LET names == {normalizeUsername(Str(list[k])) : k \in 1..Len(list)}
  IN /\ page = "waiting"
     /\ page' = "listed"
     /\ shills' = names
     /\ articles' = [i \in DOMAIN articles |-> processTweetArticle(articles[i], names)]
     /\ profile' = processProfileHeader(profile, names)
     /\ UNCHANGED <<now, cache, gs, wu, calls>>
     /\ UNCHANGED <<vars, toolVars, fallbackAt>>

\* The callback runs without a response: a warning, nothing else (lines 106-109).
NoResponse ==
  /\ page = "waiting"
  /\ page' = "failed"
  /\ UNCHANGED <<now, cache, gs, wu, calls, shills, articles>>
  /\ UNCHANGED <<vars, toolVars, fallbackAt, profile>>

NextPage ==
  \/ \E arts \in [1..MaxArticles -> FreshArticles \cup {Absent}],
        prof \in FreshProfiles \cup {NoProfile} : PageLoad(arts, prof)
  \/ \E i \in 1..MaxArticles, a \in FreshArticles : ArticleAdded(i, a)
  \/ \E p \in FreshProfiles : ProfileAdded(p)
  \/ \E i \in 1..MaxArticles : ArticleReinserted(i)
  \/ ProfileReinserted
  \/ \E i \in 1..MaxArticles : HeaderAdded(i)
  \/ \E list \in ResponseLists : ListResponse(list)
  \/ NoResponse

SpecPage == Init /\ [][NextPage]_allVars

\* C20: once the list has been delivered, every tweet article in the page
\* whose header is rendered and whose author is in the list carries a badge.
C20_ListedAuthorsBadged ==
  page = "listed" =>
    \A i \in 1..MaxArticles :
      (articles[i].st = "present"
       /\ articles[i].header
       /\ extractUsernameFromUserLink(articles[i].href) \in shills)
        => articles[i].badges > 0

(* ================= the fetch utility (fetch-x-users.ts) ================= *)

\* Largest number of values a CSV yields here: two full batches and one more.
MaxValues == 201
\* const groups = chunk(values, 100)
BatchSize == 100

FetchModes == {"usernames", "ids"}

\* for (let i = 0; i < arr.length; i += size) out.push(arr.slice(i, i + size))
RECURSIVE chunkFrom(_, _, _)
chunkFrom(arr, size, i) ==
  IF i >= Len(arr) THEN <<>>
  ELSE LET end == IF i + size < Len(arr) THEN i + size ELSE Len(arr)
       IN  <<SubSeq(arr, i + 1, end)>> \o chunkFrom(arr, size, i + size)

\* A chunk that does not cut the list.
chunk_Whole(arr, size) == IF Len(arr) = 0 THEN <<>> ELSE <<arr>>

chunk(arr, size) == chunkFrom(arr, size, 0)

\* The request fetchUsersBatch / fetchUsersByIdsBatch sends for batch i of
\* the groups g with the field set f (broad or safe); count is the number of
\* names or IDs joined into the usernames / ids parameter.
Request(g, m, i, f) ==
  [batch |-> i, endpoint |-> m, fields |-> f, count |-> Len(g[i])]

\* How a request is answered: ok (res.ok), error (any other failure of the
\* request, or a fetch that throws), rate (is429). A rate answer carries the
\* retry-after and x-rate-limit-reset headers: absent (or empty), a number,
\* text that Number() turns into NaN, and for the reset a number beyond the
\* range of Date.
RetryAfterHeaders == {"absent", "number", "nan"}
ResetHeaders == {"absent", "time", "nan", "range"}
AnsOk == [kind |-> "ok", retryAfter |-> "absent", reset |-> "absent"]
AnsError == [kind |-> "error", retryAfter |-> "absent", reset |-> "absent"]
AnsRate(ra, rs) == [kind |-> "rate", retryAfter |-> ra, reset |-> rs]

\* The catch of fetchUsersWithMeta / fetchUsersByIdsWithMeta taken for a
\* rate limit as for any other failure.
Recovery_RetryOnRate(f, isRate) == IF f = "broad" THEN "retry" ELSE "abort"

\* A catch that gives up at once.
Recovery_NoRetry(f, isRate) == "abort"

\* The catch of fetchUsersWithMeta / fetchUsersByIdsWithMeta: a failure of
\* the broad request is rethrown when it is a RateLimitError and answered with
\* the safe request otherwise; a failure of the safe request leaves the
\* function, whatever it is.
Recovery(f, isRate) ==
  IF f = "broad" /\ ~isRate THEN "retry" ELSE "abort"

\* The catch of main for a RateLimitError: retryAfterSec and resetAtEpochSec
\* are printed when they are numbers other than NaN; toISOString of a date out
\* of range throws, and the error leaves main uncaught.
RateReport(ra, rs) ==
  IF rs = "range"
  THEN [kind |-> "uncaught", retryAfter |-> FALSE, resetAt |-> FALSE]
  ELSE [kind |-> "rate", retryAfter |-> (ra = "number"), resetAt |-> (rs = "time")]

ErrorReport == [kind |-> "error", retryAfter |-> FALSE, resetAt |-> FALSE]
SummaryReport == [kind |-> "summary", retryAfter |-> FALSE, resetAt |-> FALSE]
NoUsersReport == [kind |-> "nousers", retryAfter |-> FALSE, resetAt |-> FALSE]

\* main() up to the first await of a response: n values were extracted from
\* the CSV in mode m; none ends the run, else the first batch is requested
\* with the broad fields.
StartRun(n, m) ==
  /\ fpc = "idle"
  /\ LET vs == [k \in 1..n |-> k]
         g == chunk(vs, BatchSize)
     IN  /\ values' = vs
         /\ fmode' = m
         /\ IF n = 0
            THEN /\ fpc' = "exited"
                 /\ fetchExit' = 1
                 /\ report' = NoUsersReport
                 /\ UNCHANGED <<groups, batchIdx, requests>>
            ELSE /\ fpc' = "await"
                 /\ groups' = g
                 /\ batchIdx' = 1
                 /\ requests' = <<Request(g, m, 1, "broad")>>
                 /\ UNCHANGED <<fetchExit, report>>
  /\ UNCHANGED answers
  /\ UNCHANGED <<vars, extVars, csvVars, diffVars>>

TooManyReport == [kind |-> "toomany", retryAfter |-> FALSE, resetAt |-> FALSE]

\* main() of the earlier script, which sends a single request: no value ends
\* the run, and so do more than 100; else all of them are requested at once
\* with the broad fields.
StartSingleRun(n) ==
  /\ fpc = "idle"
  /\ LET vs == [k \in 1..n |-> k]
     IN  /\ values' = vs
         /\ fmode' = "usernames"
         /\ IF n = 0 \/ n > 100
            THEN /\ fpc' = "exited"
                 /\ fetchExit' = 1
                 /\ report' = IF n = 0 THEN NoUsersReport ELSE TooManyReport
                 /\ UNCHANGED <<groups, batchIdx, requests>>
            ELSE /\ fpc' = "await"
                 /\ groups' = <<vs>>
                 /\ batchIdx' = 1
                 /\ requests' = <<Request(<<vs>>, "usernames", 1, "broad")>>
                 /\ UNCHANGED <<fetchExit, report>>
  /\ UNCHANGED answers
  /\ UNCHANGED <<vars, extVars, csvVars, diffVars>>

\* The request in flight is answered with res.ok: the users are written
\* (written = FALSE when writeUserJson throws), then the next batch is
\* requested, or the summary is printed after the last one.
AnswerOk(written) ==
  /\ fpc = "await"
  /\ answers' = Append(answers, AnsOk)
  /\ IF ~written
     THEN /\ fpc' = "exited"
          /\ fetchExit' = 1
          /\ report' = ErrorReport
          /\ UNCHANGED <<batchIdx, requests>>
     ELSE IF batchIdx < Len(groups)
     THEN /\ batchIdx' = batchIdx + 1
          /\ requests' = Append(requests, Request(groups, fmode, batchIdx + 1, "broad"))
          /\ UNCHANGED <<fpc, fetchExit, report>>
     ELSE /\ fpc' = "done"
          /\ fetchExit' = 0
          /\ report' = SummaryReport
          /\ UNCHANGED <<batchIdx, requests>>
  /\ UNCHANGED <<values, groups, fmode>>
  /\ UNCHANGED <<vars, extVars, csvVars, diffVars>>

\* The request in flight fails with the answer a (error or rate): the catch
\* of the fetching function either sends the safe request for the same batch
\* or lets the failure reach the catch of main, which reports and exits.
AnswerFailure(a) ==
  /\ fpc = "await"
  /\ answers' = Append(answers, a)
  /\ LET f == requests[Len(requests)].fields
     IN  IF Recovery(f, a.kind = "rate") = "retry"
         THEN /\ requests' = Append(requests, Request(groups, fmode, batchIdx, "safe"))
              /\ UNCHANGED <<fpc, fetchExit, report>>
         ELSE /\ fpc' = "exited"
              /\ fetchExit' = 1
              /\ report' = IF a.kind = "rate"
                           THEN RateReport(a.retryAfter, a.reset)
                           ELSE ErrorReport
              /\ UNCHANGED requests
  /\ UNCHANGED <<values, groups, batchIdx, fmode>>
  /\ UNCHANGED <<vars, extVars, csvVars, diffVars>>

AnswerError == AnswerFailure(AnsError)

AnswerRateLimit(ra, rs) == AnswerFailure(AnsRate(ra, rs))

NextFetch ==
  \/ \E n \in 0..MaxValues, m \in FetchModes : StartRun(n, m)
  \/ \E n \in 0..MaxValues : StartSingleRun(n)
  \/ \E w \in BOOLEAN : AnswerOk(w)
  \/ AnswerError
  \/ \E ra \in RetryAfterHeaders, rs \in ResetHeaders : AnswerRateLimit(ra, rs)

SpecFetch == Init /\ [][NextFetch]_allVars

\* The positions of the answers that were a rate limit.
RateAnswers == {k \in 1..Len(answers) : answers[k].kind = "rate"}

C22_AtMostHundredPerRequest ==
  \A k \in 1..Len(requests) :
    /\ requests[k].count >= 1
    /\ requests[k].count <= 100

\* More than 200 values were extracted; two full requests were answered and
\* the rest is being requested.
C22_Witness ==
  /\ Len(values) > 200
  /\ Len(requests) = 3
  /\ requests[1].count = 100
  /\ requests[2].count = 100
  /\ requests[3].count = Len(values) - 200

\* The positions of the requests sent for batch b.
RequestsOf(b) == {k \in 1..Len(requests) : requests[k].batch = b}

\* C25: at most two requests are sent for each batch; a broad request that
\* fails with an error other than a rate limit is followed by exactly one safe
\* request for the same batch, and when that one fails too the run has ended
\* with exit code 1 and no later batch is requested.
C25_OneSafeRetryThenAbort ==
  /\ \A b \in 1..Len(groups) : Cardinality(RequestsOf(b)) <= 2
  /\ \A k \in 1..Len(answers) :
       /\ (answers[k].kind = "error" /\ requests[k].fields = "broad") =>
            /\ Len(requests) > k
            /\ requests[k + 1] = [requests[k] EXCEPT !.fields = "safe"]
            /\ Cardinality(RequestsOf(requests[k].batch)) = 2
       /\ (answers[k].kind # "ok" /\ requests[k].fields = "safe") =>
            /\ k = Len(requests)
            /\ fpc = "exited"
            /\ fetchExit = 1

\* The broad and the safe request of the first of three batches both failed
\* with an error that is no rate limit.
C25_Witness ==
  /\ Len(groups) = 3
  /\ Len(answers) = 2
  /\ answers[1] = AnsError
  /\ answers[2] = AnsError
  /\ requests[2].fields = "safe"
  /\ fetchExit = 1

(* ============== extractValues of the fetch utility (CSV) =============== *)

\* Largest number of pieces a CSV text is put together from.
MaxPieces == 4

\* The pieces: two header lines, a letter, the at sign, a digit, a blank, the
\* comma, the line feed and the double quote.
CsvPieces ==
  { <<"u","s","e","r","\n">>, <<"i","d","\n">>, <<"b">>, <<"@">>, <<"7">>,
    <<" ">>, <<",">>, <<"\n">>, <<"\"">> }

RECURSIVE Concat(_)
Concat(ps) == IF Len(ps) = 0 THEN <<>> ELSE Head(ps) \o Concat(Tail(ps))

\* The CSV texts put together from n pieces.
CsvTexts(n) == {Concat(ps) : ps \in [1..n -> CsvPieces]}

\* parseCSV: the loop over the characters of text from position i on, with
\* the rows, the row and the cell collected so far.
RECURSIVE parseFrom(_, _, _, _, _, _)
parseFrom(text, i, rows, row, cell, inQuotes) ==
  IF i > Len(text)
  THEN IF Len(cell) > 0 \/ Len(row) > 0
       THEN Append(rows, Append(row, cell))
       ELSE rows
  ELSE LET c == text[i]
           nextIs(d) == i + 1 <= Len(text) /\ text[i + 1] = d
       IN  IF c = "\""
           THEN IF inQuotes
                THEN IF nextIs("\"")
                     THEN parseFrom(text, i + 2, rows, row, Append(cell, "\""), TRUE)
                     ELSE parseFrom(text, i + 1, rows, row, cell, FALSE)
                ELSE parseFrom(text, i + 1, rows, row, cell, TRUE)
           ELSE IF c = "," /\ ~inQuotes
           THEN parseFrom(text, i + 1, rows, Append(row, cell), <<>>, FALSE)
           ELSE IF c \in {"\n", "\r"} /\ ~inQuotes
           THEN parseFrom(text, IF c = "\r" /\ nextIs("\n") THEN i + 2 ELSE i + 1,
                          Append(rows, Append(row, cell)), <<>>, <<>>, FALSE)
           ELSE parseFrom(text, i + 1, rows, row, Append(cell, c), inQuotes)

parseCSV(text) == parseFrom(text, 1, <<>>, <<>>, <<>>, FALSE)

\* String.prototype.trim with the white space a CSV text has here.
WhiteSpace == {" ", "\n", "\r", "\t"}
RECURSIVE trimStart(_)
trimStart(s) == IF Len(s) > 0 /\ s[1] \in WhiteSpace THEN trimStart(Tail(s)) ELSE s
RECURSIVE trimEnd(_)
trimEnd(s) ==
  IF Len(s) > 0 /\ s[Len(s)] \in WhiteSpace
  THEN trimEnd(SubSeq(s, 1, Len(s) - 1)) ELSE s
trim(s) == trimEnd(trimStart(s))

\* normalizeUsername of fetch-x-users.ts: trim, then drop one leading "@".
csvNormalizeUsername(u) == StripAt(trim(u))

\* /^\d+$/.test(s)
onlyDigits(s) == Len(s) > 0 /\ \A i \in 1..Len(s) : s[i] \in Range(Digits)

\* r.length > 0 && r.some(c => c.length > 0)
nonEmptyRow(r) == Len(r) > 0 /\ \E c \in 1..Len(r) : Len(r[c]) > 0

\* rows.filter(nonEmptyRow)
RECURSIVE keepRows(_)
keepRows(rows) ==
  IF Len(rows) = 0 THEN <<>>
  ELSE (IF nonEmptyRow(Head(rows)) THEN <<Head(rows)>> ELSE <<>>)
       \o keepRows(Tail(rows))

\* header.findIndex(h => cols.includes(h)), counted from 1; 0 when none.
findIndex(header, cols) ==
  IF \E i \in 1..Len(header) : header[i] \in cols
  THEN CHOOSE i \in 1..Len(header) :
         header[i] \in cols /\ \A j \in 1..(i - 1) : header[j] \notin cols
  ELSE 0

possibleUserCols ==
  { <<"u","s","e","r","n","a","m","e">>, <<"h","a","n","d","l","e">>,
    <<"u","s","e","r">> }
possibleIdCols ==
  { <<"i","d">>, <<"u","s","e","r","_","i","d">>, <<"u","s","e","r","i","d">> }

\* The loop that fills the Set: the cells of column col from row i on, in
\* the order of their first occurrence; a missing or empty cell is skipped.
RECURSIVE collect(_, _, _, _)
collect(rows, i, col, acc) ==
  IF i > Len(rows) THEN acc
  ELSE LET v == IF col <= Len(rows[i]) THEN rows[i][col] ELSE <<>>
       IN  IF Len(v) = 0 \/ v \in Range(acc)
           THEN collect(rows, i + 1, col, acc)
           ELSE collect(rows, i + 1, col, Append(acc, v))

extractValues(text) ==
  LET parsed == parseCSV(text)
      trimmed == [r \in 1..Len(parsed) |->
                    [c \in 1..Len(parsed[r]) |-> trim(parsed[r][c])]]
      rows == keepRows(trimmed)
  IN  IF Len(rows) = 0
      THEN [ran |-> TRUE, mode |-> "usernames", values |-> <<>>, exit |-> -1]
      ELSE
      LET header == [c \in 1..Len(rows[1]) |-> toLowerCase(rows[1][c])]
          found == findIndex(header, possibleUserCols)
          foundId == findIndex(header, possibleIdCols)
          headerMode == IF found > 0 THEN "usernames"
                        ELSE IF foundId > 0 THEN "ids" ELSE "none"
          colIndex == IF found > 0 THEN found
                      ELSE IF foundId > 0 THEN foundId ELSE 1
          startRow == IF headerMode = "none" THEN 1 ELSE 2
          raw == collect(rows, startRow, colIndex, <<>>)
          normalized == [k \in 1..Len(raw) |->
                           IF headerMode = "ids" THEN trim(raw[k])
                           ELSE csvNormalizeUsername(raw[k])]
          idCount == Cardinality({k \in 1..Len(normalized) : onlyDigits(normalized[k])})
          total == Len(normalized)
          md == IF headerMode # "none" THEN headerMode
                ELSE IF idCount = total THEN "ids"
                ELSE IF idCount = 0 THEN "usernames" ELSE "mixed"
      IN  IF md = "mixed"
          THEN [ran |-> TRUE, mode |-> "usernames", values |-> <<>>, exit |-> 1]
          ELSE IF md = "usernames"
          THEN [ran |-> TRUE, mode |-> md, exit |-> -1,
                values |-> [k \in 1..total |-> csvNormalizeUsername(normalized[k])]]
          ELSE IF \E k \in 1..total : ~onlyDigits(trim(normalized[k]))
          THEN [ran |-> TRUE, mode |-> "ids", values |-> <<>>, exit |-> 1]
          ELSE [ran |-> TRUE, mode |-> md, exit |-> -1,
                values |-> [k \in 1..total |-> trim(normalized[k])]]

\* Any CSV text, before extractValues ran on it.
InitCsv ==
  /\ StartState
  /\ FetchInit
  /\ \E n \in 0..MaxPieces : csvText \in CsvTexts(n)
  /\ extracted = NotExtracted
  /\ DiffInit

\* const extracted = extractValues(csvText)
Extract ==
  /\ ~extracted.ran
  /\ extracted' = extractValues(csvText)
  /\ UNCHANGED csvText
  /\ UNCHANGED <<vars, extVars, fetchVars, diffVars>>

NextCsv == Extract

SpecCsv == InitCsv /\ [][NextCsv]_allVars

\* C30: the value list that extractValues returns holds no value twice.
C30_ValuesHaveNoDuplicates ==
  extracted.ran =>
    \A i, j \in 1..Len(extracted.values) :
      extracted.values[i] = extracted.values[j] => i = j

(* ================================ diff.ts =============================== *)

\* Largest number of runs of diff.ts over the same run directory.
MaxDiffRuns == 2

K_description == <<"d","e","s","c","r","i","p","t","i","o","n">>
K_url == <<"u","r","l">>
\* The property names above as Array.prototype.sort orders them.
SortedKeys == <<K_description, K_url>>
KeyRank(k) == CHOOSE i \in 1..Len(SortedKeys) : SortedKeys[i] = k

\* An object as JSON.parse delivers it: its own properties, each a pair of
\* a key and a value, in the order of the text.
Obj(props) == [t |-> "object", props |-> props]

\* canonicalize: the properties of an object in the order of their sorted
\* keys, their values canonicalized in turn; any other value as it is.
RECURSIVE canonicalize(_)
canonicalize(value) ==
  IF value.t = "object"
  THEN LET ks == {value.props[i][1] : i \in 1..Len(value.props)}
           at(k) == CHOOSE i \in 1..Len(value.props) : value.props[i][1] = k
           sorted == [i \in 1..Cardinality(ks) |->
                        CHOOSE k \in ks :
                          Cardinality({j \in ks : KeyRank(j) < KeyRank(k)}) = i - 1]
       IN  Obj([i \in 1..Len(sorted) |->
                  <<sorted[i], canonicalize(value.props[at(sorted[i])][2])>>])
  ELSE value

\* JSON.stringify: no text at all for undefined, else the JSON text.
NoText == [ok |-> FALSE, text |-> <<>>]
Text(cs) == [ok |-> TRUE, text |-> cs]
RECURSIVE stringifyText(_)
RECURSIVE stringifyProps(_, _)
stringifyProps(props, i) ==
  IF i > Len(props) THEN <<>>
  ELSE (IF i > 1 THEN <<",">> ELSE <<>>)
       \o <<"\"">> \o props[i][1] \o <<"\"", ":">> \o stringifyText(props[i][2])
       \o stringifyProps(props, i + 1)
stringifyText(v) ==
  CASE v.t = "null" -> <<"n","u","l","l">>
    [] v.t = "string" -> <<"\"">> \o v.s \o <<"\"">>
    [] v.t = "number" -> NatToStr(v.n)
    [] v.t = "object" -> <<"{">> \o stringifyProps(v.props, 1) \o <<"}">>
stringify(v) == IF v.t = "undefined" THEN NoText ELSE Text(stringifyText(v))

\* deepEqual: JSON.stringify(a) === JSON.stringify(b)
deepEqual(a, b) == stringify(a) = stringify(b)

\* public_metrics with a followers_count and a tweet_count (or without).
Metrics(f, tw) ==
  [t |-> "object", followers_count |-> f, following_count |-> Undef,
   tweet_count |-> tw, listed_count |-> Undef]
MetricKeys == {"followers_count", "following_count", "tweet_count", "listed_count"}

\* (m?.[k] ?? null)
MetricOf(m, k) == IF m.t = "object" THEN Coalesce(m[k], Null) ELSE Null

\* A shill file with these fields; rest stands for all its other fields.
Shill(aff, pm, ch) ==
  [exists |-> TRUE, affiliation |-> aff, public_metrics |-> pm, changes |-> ch,
   rest |-> <<"b","o","b">>]

\* A fetched file.
Fetched(u, aff, pm) == [username |-> u, affiliation |-> aff, public_metrics |-> pm]

\* runIso, the timestamp taken from the name of the run directory.
RunIso == <<"2","0","2","5">>

\* The entry that update mode builds from the shill file and the fetched
\* file: affiliation_before / affiliation_after only when affChanged,
\* public_metrics only when some count differs.
Updates(shill, raw) ==
  LET affNewCanon == canonicalize(raw.affiliation)
      affOldCanon == canonicalize(shill.affiliation)
      affChanged == ~deepEqual(affNewCanon, affOldCanon)
      before(k) == MetricOf(shill.public_metrics, k)
      after(k) == MetricOf(raw.public_metrics, k)
      differing == {k \in MetricKeys : before(k) # after(k)}
  IN  [at |-> RunIso,
       affChanged |-> affChanged,
       affiliation_before |-> IF affChanged THEN Coalesce(affOldCanon, Null) ELSE Undef,
       affiliation_after |-> IF affChanged THEN Coalesce(affNewCanon, Null) ELSE Undef,
       public_metrics |-> [k \in differing |-> [before |-> before(k), after |-> after(k)]]]

\* Object.keys(updates).length > 1
HasUpdates(updates) == updates.affChanged \/ DOMAIN updates.public_metrics # {}

\* Array.isArray(shill.changes) ? shill.changes : []
ExistingChanges(shill) ==
  IF shill.changes.t = "array" THEN shill.changes.items ELSE <<>>

\* { ...shill, changes: existing } after existing.push(updates)
NewShill(shill, updates) ==
  [shill EXCEPT !.changes = Arr(Append(ExistingChanges(shill), updates))]

\* What the run directory and web/shills may hold.
DiffAffiliations ==
  { Undef, Null,
    Obj(<< <<K_description, Str(<<"x">>)>>, <<K_url, Str(<<"y">>)>> >>),
    Obj(<< <<K_url, Str(<<"y">>)>>, <<K_description, Str(<<"x">>)>> >>),
    Obj(<< <<K_description, Str(<<"z">>)>> >>) }
DiffMetrics ==
  { Undef, Null, Metrics(Num(1), Undef), Metrics(Num(2), Num(5)) }
OldEntry ==
  [at |-> <<"2","0","2","4">>, affChanged |-> FALSE, affiliation_before |-> Undef,
   affiliation_after |-> Undef,
   public_metrics |-> [k \in {"tweet_count"} |-> [before |-> Num(4), after |-> Num(5)]]]
DiffChanges == { Undef, Str(<<"x">>), Arr(<<OldEntry>>) }
DiffShills ==
  {NoShill} \cup
  {Shill(a, m, c) : a \in DiffAffiliations, m \in DiffMetrics \ {Null}, c \in DiffChanges}
DiffFetched ==
  {Fetched(<<>>, Null, Null)} \cup
  {Fetched(<<"b","o","b">>, a, m) : a \in DiffAffiliations, m \in DiffMetrics}
DiffRunDirs == {<<>>} \cup {<<f>> : f \in DiffFetched}
DiffModes == {"inspect", "update", "ids"}

\* main() up to the loop over the fetched files: ids mode only reads
\* web/shills and prints; the other modes end at once when the run directory
\* holds no JSON file. What is printed is left out.
BeginDiff(m) ==
  /\ druns < MaxDiffRuns
  /\ druns' = druns + 1
  /\ dmode' = m
  /\ dwrites' = 0
  /\ dIdx' = 1
  /\ dpc' = IF m = "ids" \/ Len(fetchedFiles') = 0 THEN "done" ELSE "loop"
  /\ UNCHANGED <<vars, extVars, fetchVars, csvVars>>

\* The first run, over any run directory and any shill file.
StartDiff(m, shill, run) ==
  /\ dpc = "idle"
  /\ fetchedFiles' = run
  /\ shillFile' = shill
  /\ shillBefore' = shill
  /\ BeginDiff(m)

\* Another run over the same run directory and the shill file as it is now.
RerunDiff(m) ==
  /\ dpc = "done"
  /\ shillBefore' = shillFile
  /\ UNCHANGED <<fetchedFiles, shillFile>>
  /\ BeginDiff(m)

\* One turn of the loop over the fetched files: a file without a username is
\* skipped, a username without a shill file is only reported; in update mode
\* the entry is appended and the shill file written when it holds more than
\* its timestamp. A writeFile that throws (written = FALSE) is caught by the
\* catch of the loop.
DiffFile(written) ==
  /\ dpc = "loop"
  /\ LET raw == fetchedFiles[dIdx]
         updates == Updates(shillFile, raw)
     IN  IF Len(raw.username) > 0 /\ shillFile.exists /\ dmode = "update"
            /\ HasUpdates(updates)
         THEN /\ dwrites' = dwrites + 1
              /\ shillFile' = IF written THEN NewShill(shillFile, updates) ELSE shillFile
         ELSE UNCHANGED <<dwrites, shillFile>>
  /\ dIdx' = dIdx + 1
  /\ dpc' = IF dIdx < Len(fetchedFiles) THEN "loop" ELSE "done"
  /\ UNCHANGED <<dmode, druns, fetchedFiles, shillBefore>>
  /\ UNCHANGED <<vars, extVars, fetchVars, csvVars>>

NextDiff ==
  \/ \E m \in DiffModes, shill \in DiffShills, run \in DiffRunDirs : StartDiff(m, shill, run)
  \/ \E m \in DiffModes : RerunDiff(m)
  \/ \E w \in BOOLEAN : DiffFile(w)

SpecDiff == Init /\ [][NextDiff]_allVars

\* An affiliation as the log entry records it: null when there is none, and
\* an object by its properties whatever their order.
AffiliationValue(aff) ==
  IF aff.t = "object" THEN {aff.props[i] : i \in 1..Len(aff.props)} ELSE {}

\* The fetched file and the shill file differ in their affiliation or in one
\* of the four public metrics.
RealDifference(shill, raw) ==
  \/ AffiliationValue(shill.affiliation) # AffiliationValue(raw.affiliation)
  \/ \E k \in MetricKeys :
       MetricOf(shill.public_metrics, k) # MetricOf(raw.public_metrics, k)

\* C23: a run in inspect or ids mode leaves the shill file as it found it; a
\* run that changed it was in update mode, found an affiliation or a public
\* metric that differs, and only appended one entry to changes, every earlier
\* entry and every other field staying as they were.
C23_OnlyAppendsOnDifference ==
  /\ dmode \in {"inspect", "ids"} => shillFile = shillBefore /\ dwrites = 0
  /\ shillFile # shillBefore =>
       /\ dmode = "update"
       /\ shillBefore.exists
       /\ RealDifference(shillBefore, fetchedFiles[1])
       /\ \E e \in {shillFile.changes.items[Len(shillFile.changes.items)]} :
            shillFile = [shillBefore EXCEPT
                           !.changes = Arr(Append(ExistingChanges(shillBefore), e))]

\* The affiliation is neither null nor an object without properties.
NonEmptyAffiliation(aff) ==
  /\ Truthy(aff)
  /\ aff.t = "object" => (aff.description # Undef \/ aff.url # Undef)

\* renderDirectory: aff && (aff.description || aff.url) shows the affiliation
\* badge, anything else the badge "Independent".
ShownAffiliated(aff) ==
  /\ Truthy(aff)
  /\ aff.t = "object"
  /\ (Truthy(aff.description) \/ Truthy(aff.url))

\* C24: the statistics of a build over valid records count as affiliated
\* exactly the records whose affiliation is non-null and structurally
\* non-empty, and as independent the others; these are the records the
\* directory page shows with an affiliation badge.
C24_AffiliatedIffNonEmpty ==
  (Emitted /\ ~NoValidRecords(srcDir)) =>
    LET affiliated == {i \in CountedFiles : NonEmptyAffiliation(AccountAt(i).affiliation)}
        shown == {i \in CountedFiles : ShownAffiliated(AccountAt(i).affiliation)}
    IN  /\ StatsDoc.totals.affiliated = Cardinality(affiliated)
        /\ StatsDoc.totals.independent = Cardinality(CountedFiles \ affiliated)
        /\ affiliated = shown

\* C26: once a build has emitted its statistics, totals.accounts is the
\* number of entries of the combined listing shills/_all.json.
C26_AccountsMatchListing ==
  Emitted => StatsDoc.totals.accounts = Len(ListingAccounts)

\* C27: whenever a getShills call writes the bundled fallback list to the
\* cache, the cache holds no list at that moment.
C27_FallbackOnlyIntoEmptyCache ==
  [][(gs.pc = "fallback" /\ gs'.pc # "fallback" /\ cache' # cache) =>
       (~cache.has \/ Len(cache.list) = 0)]_allVars

\* A getShills call begins with the bundled list stored less than 5 days ago.
CallWithinWindow ==
  /\ gs.pc = "idle"
  /\ gs'.pc # "idle"
  /\ fallbackAt >= 0
  /\ now - fallbackAt < TTL_MS

\* The call returns the bundled list at once, with no remote fetch.
ServedBundled ==
  /\ gs'.pc = "returned"
  /\ gs'.fetch = "none"
  /\ gs'.result = BundledUsernames

\* A non-empty bundled list that getShills falls back to is stored as the
\* cache, with the current time.
FallbackIsStored ==
  (gs.pc = "fallback" /\ gs'.pc # "fallback" /\ Len(gs'.result) > 0) =>
    cache' = [has |-> TRUE, list |-> gs'.result, ts |-> now]

\* C28 (as stated): a non-empty bundled list that getShills falls back to is
\* stored as the cache with the current time, and every getShills call of
\* the following 5 days returns the bundled list without a remote fetch.
C28_BundledServedForFiveDays ==
  [][FallbackIsStored /\ (CallWithinWindow => ServedBundled)]_allVars

\* C28 (amended): a non-empty bundled list that getShills falls back to is
\* stored as the cache with the current time, and every getShills call of
\* the following 5 days that still finds this entry in the cache returns the
\* bundled list without a remote fetch.
C28_BundledServedWhileCached ==
  [][/\ FallbackIsStored
     /\ (CallWithinWindow
         /\ cache = [has |-> TRUE, list |-> BundledUsernames, ts |-> fallbackAt])
        => ServedBundled]_allVars

\* Four days after the bundled list was stored a call returned it from the
\* cache.
C28_Witness ==
  /\ fallbackAt >= 0
  /\ now - fallbackAt = 4 * Day
  /\ gs.pc = "returned"
  /\ gs.src = "cache"
  /\ gs.fetch = "none"
  /\ gs.result = BundledUsernames
  /\ cache.ts = fallbackAt

\* The tweet articles and the profile header, by name.
Elements == [i \in 1..MaxArticles |-> articles[i]] \o <<profile>>

\* C29: no user-name container ever holds more than one badge, and an
\* article or profile header that is marked as processed is not looked into
\* again: its badges and its mark stay as they are.
C29_OneBadgeAndProcessedOnce ==
  [][\A k \in 1..(MaxArticles + 1) :
       /\ Elements'[k].badges <= 1
       /\ Elements[k].processed =>
            /\ Elements'[k].examined = Elements[k].examined
            /\ Elements'[k].badges = Elements[k].badges
            /\ Elements'[k].processed]_allVars

\* After the list arrived, a listed author's article and the listed profile
\* header each carry one badge and were looked into once.
C29_Witness ==
  /\ page = "listed"
  /\ articles[1].processed /\ articles[1].badges = 1 /\ articles[1].examined = 1
  /\ profile.processed /\ profile.badges = 1 /\ profile.examined = 1

====
